---- MODULE Spec2Model ----
(***************************************************************************)
(* Verification model of the stock dashboard front end:                    *)
(*   - usePaperTradingData  (paper-trading aggregator)                     *)
(*   - ExpireStorage        (session store with absolute expiry)           *)
(*   - AuthProvider         (inactivity monitor)                           *)
(*   - useStockData         (market data fetcher)                          *)
(*   - App.compositeData    (composite derivation engine)                  *)
(* Each subsystem has its own specification; the variables of the other    *)
(* subsystems stay at their initial values.                                *)
(***************************************************************************)
EXTENDS Integers, Sequences, FiniteSets, TLC

VARIABLES
  \* ---- usePaperTradingData ----
  index,            \* PaperTradingIndexEntry[] (the dates of the entries, in order)
  ptLoading,        \* loading
  ptError,          \* error
  selectedDates,    \* Set<string>
  excludedStocks,   \* Set<string> of stockKey(date, code)
  dailyData,        \* Map<date, PaperTradingData>
  ptPc,             \* position of the fetchIndex call in flight
  ptDataMap,        \* the local dataMap of the fetchIndex call in flight
  ptPending,        \* daily files whose fetch has not settled yet
  ptOutcome,        \* per date, how its file fetch of the latest fetchIndex call ended
  serverIndex,      \* what the server serves as paper-trading-index.json
  serverFiles,      \* what the server serves as the daily files
  \* ---- PaperTradingPage ----
  ptActiveTab,      \* activeTab: the sell mode, "close" or "high"
  \* ---- ExpireStorage / localStorage ----
  storage,          \* localStorage entries under the session keys
  adminFlag,        \* localStorage entry under ADMIN_FLAG_KEY
  lastGet,          \* what the latest ExpireStorage.getItem call returned
  written,          \* per key, the time and value of the setItem that wrote the entry
  \* ---- AuthProvider ----
  user,             \* useState<User | null>
  session,          \* useState<Session | null>
  authLoading,      \* loading
  inactivityTimer,  \* inactivityTimerRef and the timeout it refers to
  lastActivityRef,  \* lastActivityRef.current
  backendUser,      \* the user of the session the auth backend holds
  lastEventAt,      \* time of the latest activity event (-1: none yet)
  burstResets,      \* countdown resets by the activity events of the current burst
  resetTimes,       \* times of the latest two resets by activity events (-1: none)
  activeSince,      \* when the current non-exempt user became authenticated (-1: none)
  signOutIssued,    \* the requests issued by the latest signOut() call, in order
  \* ---- useStockData ----
  data,             \* useState<StockData | null>
  loading,          \* loading
  error,            \* error
  refreshElapsed,   \* refreshElapsed
  refreshTimerRef,  \* the elapsed ticker is scheduled
  apiUrl,           \* API_URL is configured
  fdPc,             \* position of the fetchData call of the mount effect / refetch
  rfPc,             \* position of the refreshFromAPI call
  rfIssued,         \* requests the latest refreshFromAPI call has issued
  rfHealth,         \* outcome of the health probe of the latest refreshFromAPI call
  rfRefresh,        \* outcome of the /api/refresh request of the latest refreshFromAPI call
  \* ---- App ----
  currentData,      \* data of useStockData, as the snapshot it holds
  historyData,      \* selectedData of useHistoryData
  compositeMode,    \* compositeMode
  fluctuationMode,  \* fluctuationMode
  histPending,      \* the entry whose fetchHistoryData call is in flight (NULL: none)
  showHistoryModal, \* showHistoryModal
  \* ---- AuthPage and the signIn / signUp calls it makes ----
  tab,              \* tab: "login" or "signup"
  email,            \* email
  password,         \* password
  formError,        \* error
  formLoading,      \* loading
  signUpSuccess,    \* signUpSuccess
  submitPc,         \* the call handleSubmit is awaiting ("idle": none)
  lastResult,       \* how the latest signIn / signUp call settled
  \* ---- the session queries of AuthProvider ----
  sessionFetch,     \* the getSession() call of the mount effect: its stage and answer
  lastQuery,        \* which session query was answered last ("none", "mount", "visibility")
  \* ---- clock ----
  now,              \* Date.now()
  ticks             \* number of clock advances so far

paperVars == <<index, ptLoading, ptError, selectedDates, excludedStocks, dailyData,
               ptPc, ptDataMap, ptPending, ptOutcome,
                 serverIndex, serverFiles>>

pageVars == <<ptActiveTab>>

storeVars == <<storage, adminFlag, lastGet, written>>

clockVars == <<now, ticks>>

authVars == <<user, session, authLoading, inactivityTimer, lastActivityRef, backendUser,
              lastEventAt, burstResets, resetTimes, activeSince, signOutIssued>>

fetchVars == <<data, loading, error, refreshElapsed, refreshTimerRef, apiUrl, fdPc, rfPc,
               rfIssued, rfHealth, rfRefresh>>

appVars == <<currentData, historyData, compositeMode, fluctuationMode>>

histVars == <<histPending, showHistoryModal>>

formVars == <<tab, email, password, formError, formLoading, signUpSuccess, submitPc, lastResult>>

mountVars == <<sessionFetch, lastQuery>>

vars == <<paperVars, pageVars, storeVars, authVars, mountVars, fetchVars, appVars, histVars,
          formVars, clockVars>>

\* what the operations of one subsystem leave alone
notPaper == <<mountVars, histVars, formVars, pageVars, storeVars, authVars, fetchVars, appVars, clockVars>>
notPage == <<mountVars, histVars, formVars, paperVars, storeVars, authVars, fetchVars, appVars, clockVars>>
notStore == <<mountVars, histVars, formVars, paperVars, pageVars, authVars, fetchVars, appVars>>
notAuth == <<mountVars, histVars, formVars, paperVars, pageVars, fetchVars, appVars, storage, lastGet, written>>
notAuth_Store == <<mountVars, histVars, formVars, paperVars, pageVars, fetchVars, appVars>>
notSession == <<sessionFetch, histVars, formVars, paperVars, pageVars, fetchVars, appVars>>
notMount == <<histVars, formVars, paperVars, pageVars, fetchVars, appVars>>
notFetch == <<mountVars, histVars, formVars, paperVars, pageVars, storeVars, authVars, appVars, clockVars>>
notForm == <<mountVars, histVars, paperVars, pageVars, storeVars, authVars, fetchVars, appVars, clockVars>>
notHistory == <<mountVars, formVars, paperVars, pageVars, storeVars, authVars, fetchVars, clockVars>>
notApp == <<mountVars, histVars, formVars, paperVars, pageVars, storeVars, authVars, fetchVars, clockVars>>

NULL == "null"

(***************************************************************************)
(* Generic helpers                                                         *)
(***************************************************************************)
RECURSIVE SeqSum(_)
\* Array.prototype.reduce((sum, x) => sum + x, 0)
SeqSum(s) == IF s = <<>> THEN 0 ELSE Head(s) + SeqSum(Tail(s))

RECURSIVE Flatten(_)
\* stocks.push(...chunk) for every chunk, in order
Flatten(ss) == IF ss = <<>> THEN <<>> ELSE Head(ss) \o Flatten(Tail(ss))

SeqRange(s) == {s[i] : i \in 1..Len(s)}

\* Math.round(n / d) for d > 0: the nearest integer, halves rounded up
RoundDiv(n, d) == (2 * n + d) \div (2 * d)

(***************************************************************************)
(* Paper-trading aggregator: data                                          *)
(***************************************************************************)
PTDates == {"2026-02-10", "2026-02-11"}
PTCodes == {"056080", "005930"}

\* the order in which the model walks a set of dates
DateOrder == <<"2026-02-10", "2026-02-11">>

\* a PaperTradingStock as the external job writes it; profit_rate in 1/100 percent
\* the optional high_price of a PaperTradingStock
NoHigh == [present |-> FALSE, value |-> 0]
High(v) == [present |-> TRUE, value |-> v]

PaperTradingStock(code, buy, close, high) ==
  [code |-> code, buy_price |-> buy, close_price |-> close, high_price |-> high,
   profit_rate |-> RoundDiv((close - buy) * 10000, buy)]

\* the daily files the server may hold (the stocks array of each PaperTradingData)
DayA ==
  <<PaperTradingStock("056080", 10000, 11000, High(11500)),
    PaperTradingStock("005930", 20000, 19000, NoHigh)>>
DayB == <<PaperTradingStock("005930", 20000, 20000, High(21000))>>
DayC ==
  <<PaperTradingStock("005930", 30000, 30100, NoHigh),
    PaperTradingStock("056080", 10000, 9000, High(10200))>>

ServerWorlds ==
  { [d \in PTDates |-> IF d = "2026-02-10" THEN DayA ELSE DayB],
    [d \in PTDates |-> IF d = "2026-02-10" THEN DayC ELSE DayA],
    [d \in PTDates |-> IF d = "2026-02-10" THEN DayB ELSE DayC] }

\* the index files the server may hold (entries, by date)
IndexFiles == { <<>>, <<"2026-02-11">>, <<"2026-02-10", "2026-02-11">> }

\* an absent key of the dailyData map
NoData == [has |-> FALSE, stocks |-> <<>>]

\* a present value of the dailyData map (the stocks array of the PaperTradingData)
DayData(stocks) == [has |-> TRUE, stocks |-> stocks]

EmptyMap == [d \in PTDates |-> NoData]

\* date:code key of the exclusion set
stockKey(date, code) == <<date, code>>

(***************************************************************************)
(* Paper-trading aggregator: derived state (useMemo)                       *)
(***************************************************************************)
\* activeStocks: stocks of the selected dates that have data and are not excluded
ActiveStocksOf(sel, dd, ex) ==
  LET dayPart(d) ==
        IF d \in sel /\ dd[d].has
        THEN SelectSeq(dd[d].stocks, LAMBDA s : stockKey(d, s.code) \notin ex)
        ELSE <<>>
  IN Flatten([i \in 1..Len(DateOrder) |-> dayPart(DateOrder[i])])

\* allStocks: stocks of the selected dates that have data
AllStocksOf(sel, dd) ==
  LET dayPart(d) == IF d \in sel /\ dd[d].has THEN dd[d].stocks ELSE <<>>
  IN Flatten([i \in 1..Len(DateOrder) |-> dayPart(DateOrder[i])])

SummaryMutNoExclusion(sel, dd, ex) ==
  LET act == AllStocksOf(sel, dd)
      totalInvested == SeqSum([i \in 1..Len(act) |-> act[i].buy_price])
      totalValue == SeqSum([i \in 1..Len(act) |-> act[i].close_price])
      totalProfit == totalValue - totalInvested
  IN [totalDays |-> Cardinality(sel),
      totalStocks |-> Len(act),
      profitStocks |-> Len(SelectSeq(act, LAMBDA s : s.profit_rate > 0)),
      lossStocks |-> Len(SelectSeq(act, LAMBDA s : s.profit_rate < 0)),
      flatStocks |-> Len(SelectSeq(act, LAMBDA s : s.profit_rate = 0)),
      totalInvested |-> totalInvested,
      totalValue |-> totalValue,
      totalProfit |-> totalProfit,
      totalProfitRate |-> IF totalInvested > 0
                          THEN RoundDiv(totalProfit * 10000, totalInvested)
                          ELSE 0]

\* summary; totalProfitRate is kept in 1/100 percent (the value times 100)
SummaryOf(sel, dd, ex) ==
  LET act == ActiveStocksOf(sel, dd, ex)
      totalInvested == SeqSum([i \in 1..Len(act) |-> act[i].buy_price])
      totalValue == SeqSum([i \in 1..Len(act) |-> act[i].close_price])
      totalProfit == totalValue - totalInvested
  IN [totalDays |-> Cardinality(sel),
      totalStocks |-> Len(act),
      profitStocks |-> Len(SelectSeq(act, LAMBDA s : s.profit_rate > 0)),
      lossStocks |-> Len(SelectSeq(act, LAMBDA s : s.profit_rate < 0)),
      flatStocks |-> Len(SelectSeq(act, LAMBDA s : s.profit_rate = 0)),
      totalInvested |-> totalInvested,
      totalValue |-> totalValue,
      totalProfit |-> totalProfit,
      totalProfitRate |-> IF totalInvested > 0
                          THEN RoundDiv(totalProfit * 10000, totalInvested)
                          ELSE 0]

\* PaperTradingMode
PaperTradingModes == {"close", "high"}

\* s.high_price ?? s.close_price
HighOrClose(s) == IF s.high_price.present THEN s.high_price.value ELSE s.close_price

\* dayInvested, dayValue and dayProfitRate of the card of one day
DayFiguresOf(date, dd, ex, mode) ==
  LET act == SelectSeq(dd[date].stocks, LAMBDA s : stockKey(date, s.code) \notin ex)
      dayInvested == SeqSum([i \in 1..Len(act) |-> act[i].buy_price])
      dayValue == IF mode = "high"
                  THEN SeqSum([i \in 1..Len(act) |-> HighOrClose(act[i])])
                  ELSE SeqSum([i \in 1..Len(act) |-> act[i].close_price])
  IN [dayInvested |-> dayInvested,
      dayValue |-> dayValue,
      dayProfitRate |-> IF dayInvested > 0
                        THEN RoundDiv((dayValue - dayInvested) * 10000, dayInvested)
                        ELSE 0]

\* what PaperTradingSummary is given to show: the summary of the hook
shownSummary == SummaryOf(selectedDates, dailyData, excludedStocks)

activeStocks == ActiveStocksOf(selectedDates, dailyData, excludedStocks)
summary == SummaryOf(selectedDates, dailyData, excludedStocks)

(***************************************************************************)
(* Paper-trading aggregator: state updaters                                *)
(***************************************************************************)
ToggledMutAddOnly(prev, key) == prev \cup {key}

\* the updater of toggleDate / toggleStock: flip the membership of one key
Toggled(prev, key) == IF key \in prev THEN prev \ {key} ELSE prev \cup {key}

AllDatesToggledMutAlwaysClears(prev, idx) == {}

\* the updater of toggleAllDates: prev.size === index.length ? new Set() : all dates
AllDatesToggled(prev, idx) ==
  IF Cardinality(prev) = Len(idx) THEN {} ELSE SeqRange(idx)

GroupToggledMutPerItem(prev, date, codes) ==
  LET keys == {stockKey(date, codes[i]) : i \in 1..Len(codes)}
  IN (prev \ keys) \cup (keys \ prev)

\* the updater of toggleAllStocks
GroupToggled(prev, date, codes) ==
  LET keys == {stockKey(date, codes[i]) : i \in 1..Len(codes)}
      allExcluded == \A k \in keys : k \in prev
  IN IF allExcluded THEN prev \ keys ELSE prev \cup keys

(***************************************************************************)
(* Paper-trading aggregator: actions                                       *)
(***************************************************************************)
NoOutcome == [d \in PTDates |-> "none"]

PaperInit ==
  /\ index = <<>>
  /\ ptLoading = FALSE
  /\ ptError = NULL
  /\ selectedDates = {}
  /\ excludedStocks = {}
  /\ dailyData = EmptyMap
  /\ ptPc = "idle"
  /\ ptDataMap = EmptyMap
  /\ ptPending = {}
  /\ ptOutcome = NoOutcome
  /\ serverIndex \in IndexFiles
  /\ serverFiles \in ServerWorlds
  /\ ptActiveTab = "close"

\* fetchIndex up to the first await
FetchIndexCall ==
  /\ ptPc = "idle"
  /\ ptLoading' = TRUE
  /\ ptError' = NULL
  /\ ptPc' = "index"
  /\ UNCHANGED <<index, selectedDates, excludedStocks, dailyData, ptDataMap,
                 ptPending, ptOutcome,
                 serverIndex, serverFiles>>
  /\ UNCHANGED notPaper

\* the index answers 404: setIndex([]), return through finally
IndexNotFound ==
  /\ ptPc = "index"
  /\ index' = <<>>
  /\ ptLoading' = FALSE
  /\ ptPc' = "idle"
  /\ UNCHANGED <<ptError, selectedDates, excludedStocks, dailyData, ptDataMap,
                 ptPending, ptOutcome,
                 serverIndex, serverFiles>>
  /\ UNCHANGED notPaper

\* the index fetch throws (network error, other HTTP status, bad JSON)
IndexFailed ==
  /\ ptPc = "index"
  /\ ptError' = "FetchFailed"
  /\ index' = <<>>
  /\ ptLoading' = FALSE
  /\ ptPc' = "idle"
  /\ UNCHANGED <<selectedDates, excludedStocks, dailyData, ptDataMap,
                 ptPending, ptOutcome,
                 serverIndex, serverFiles>>
  /\ UNCHANGED notPaper

\* the index loads: setIndex, select every date, start one fetch per entry
IndexLoaded ==
  /\ ptPc = "index"
  /\ index' = serverIndex
  /\ selectedDates' = SeqRange(serverIndex)
  /\ ptDataMap' = EmptyMap
  /\ ptPending' = SeqRange(serverIndex)
  /\ ptOutcome' = NoOutcome
  /\ ptPc' = "days"
  /\ UNCHANGED <<ptLoading, ptError, excludedStocks, dailyData, serverIndex, serverFiles>>
  /\ UNCHANGED notPaper

\* one daily file loads: dataMap.set(entry.date, json)
DayLoaded(d) ==
  /\ ptPc = "days"
  /\ d \in ptPending
  /\ ptDataMap' = [ptDataMap EXCEPT ![d] = DayData(serverFiles[d])]
  /\ ptPending' = ptPending \ {d}
  /\ ptOutcome' = [ptOutcome EXCEPT ![d] = "loaded"]
  /\ UNCHANGED <<index, ptLoading, ptError, selectedDates, excludedStocks, dailyData,
                 ptPc, serverIndex, serverFiles>>
  /\ UNCHANGED notPaper

DayFailedMutStoresEmptyDay(d) ==
  /\ ptPc = "days"
  /\ d \in ptPending
  /\ ptPending' = ptPending \ {d}
  /\ ptOutcome' = [ptOutcome EXCEPT ![d] = "failed"]
  /\ ptDataMap' = [ptDataMap EXCEPT ![d] = DayData(<<>>)]
  /\ UNCHANGED <<index, ptLoading, ptError, selectedDates, excludedStocks, dailyData,
                 ptPc, serverIndex, serverFiles>>
  /\ UNCHANGED notPaper

\* one daily file fails (res.ok false, or the fetch throws): ignored
DayFailed(d) ==
  /\ ptPc = "days"
  /\ d \in ptPending
  /\ ptPending' = ptPending \ {d}
  /\ ptOutcome' = [ptOutcome EXCEPT ![d] = "failed"]
  /\ UNCHANGED <<index, ptLoading, ptError, selectedDates, excludedStocks, dailyData,
                 ptPc, ptDataMap, serverIndex, serverFiles>>
  /\ UNCHANGED notPaper

\* Promise.all resolves: setDailyData(dataMap), finally setLoading(false)
FetchIndexSettle ==
  /\ ptPc = "days"
  /\ ptPending = {}
  /\ dailyData' = ptDataMap
  /\ ptLoading' = FALSE
  /\ ptPc' = "idle"
  /\ UNCHANGED <<index, ptError, selectedDates, excludedStocks, ptDataMap, ptPending,
                 ptOutcome, serverIndex, serverFiles>>
  /\ UNCHANGED notPaper

toggleDateMutDropsExclusions(date) ==
  /\ selectedDates' = Toggled(selectedDates, date)
  /\ excludedStocks' = {k \in excludedStocks : k[1] # date}
  /\ UNCHANGED <<index, ptLoading, ptError, dailyData, ptPc, ptDataMap,
                 ptPending, ptOutcome, serverIndex, serverFiles>>
  /\ UNCHANGED notPaper

toggleDate(date) ==
  /\ selectedDates' = Toggled(selectedDates, date)
  /\ UNCHANGED <<index, ptLoading, ptError, excludedStocks, dailyData, ptPc, ptDataMap,
                 ptPending, ptOutcome,
                 serverIndex, serverFiles>>
  /\ UNCHANGED notPaper

toggleAllDates ==
  /\ selectedDates' = AllDatesToggled(selectedDates, index)
  /\ UNCHANGED <<index, ptLoading, ptError, excludedStocks, dailyData, ptPc, ptDataMap,
                 ptPending, ptOutcome,
                 serverIndex, serverFiles>>
  /\ UNCHANGED notPaper

toggleStock(date, code) ==
  /\ excludedStocks' = Toggled(excludedStocks, stockKey(date, code))
  /\ UNCHANGED <<index, ptLoading, ptError, selectedDates, dailyData, ptPc, ptDataMap,
                 ptPending, ptOutcome,
                 serverIndex, serverFiles>>
  /\ UNCHANGED notPaper

toggleAllStocks(date, codes) ==
  /\ excludedStocks' = GroupToggled(excludedStocks, date, codes)
  /\ UNCHANGED <<index, ptLoading, ptError, selectedDates, dailyData, ptPc, ptDataMap,
                 ptPending, ptOutcome,
                 serverIndex, serverFiles>>
  /\ UNCHANGED notPaper

resetExcluded ==
  /\ excludedStocks' = {}
  /\ UNCHANGED <<index, ptLoading, ptError, selectedDates, dailyData, ptPc, ptDataMap,
                 ptPending, ptOutcome,
                 serverIndex, serverFiles>>
  /\ UNCHANGED notPaper

\* PaperTradingPage.handleModeChange(mode): setActiveTab(mode)
handleModeChange(mode) ==
  /\ ptActiveTab' = mode
  /\ UNCHANGED paperVars
  /\ UNCHANGED notPage

\* the code lists a group toggle may be called with
MaxCodes == 2
CodeLists == UNION {[1..n -> PTCodes] : n \in 0..MaxCodes}

PaperNext ==
  \/ FetchIndexCall
  \/ IndexNotFound
  \/ IndexFailed
  \/ IndexLoaded
  \/ \E d \in PTDates : DayLoaded(d)
  \/ \E d \in PTDates : DayFailed(d)
  \/ FetchIndexSettle
  \/ \E d \in SeqRange(index) : toggleDate(d)
  \/ toggleAllDates
  \/ \E d \in PTDates, c \in PTCodes : toggleStock(d, c)
  \/ \E d \in PTDates, cs \in CodeLists : toggleAllStocks(d, cs)
  \/ resetExcluded
  \/ \E m \in PaperTradingModes : handleModeChange(m)


(***************************************************************************)
(* Paper-trading aggregator: properties                                    *)
(***************************************************************************)
\* the active positions as a set: (date, position) of every stock of a selected,
\* loaded date whose key is not excluded
ActivePositions ==
  {p \in PTDates \X (1..3) :
     /\ p[1] \in selectedDates
     /\ dailyData[p[1]].has
     /\ p[2] <= Len(dailyData[p[1]].stocks)
     /\ <<p[1], dailyData[p[1]].stocks[p[2]].code>> \notin excludedStocks}

BuyAt(p) == dailyData[p[1]].stocks[p[2]].buy_price
CloseAt(p) == dailyData[p[1]].stocks[p[2]].close_price

RECURSIVE SumBuy(_)
SumBuy(S) == IF S = {} THEN 0 ELSE LET x == CHOOSE y \in S : TRUE IN BuyAt(x) + SumBuy(S \ {x})

RECURSIVE SumClose(_)
SumClose(S) == IF S = {} THEN 0 ELSE LET x == CHOOSE y \in S : TRUE IN CloseAt(x) + SumClose(S \ {x})

\* C7: toggling the exclusion of one (date, code) twice restores the exclusion set
\* and every field of the summary: after any toggleStock(date, code) step, toggling
\* the same key once more gives back the exclusion set and the summary of before.
C7_ToggleTwiceRestores ==
  [][\A d \in PTDates, c \in PTCodes :
       toggleStock(d, c) =>
         LET again == Toggled(excludedStocks', stockKey(d, c))
         IN /\ excludedStocks' # excludedStocks
            /\ again = excludedStocks
            /\ SummaryOf(selectedDates', dailyData', again) = summary]_vars

\* C7 witness: an exclusion is in force that removes a loaded stock from the summary
C7_Witness ==
  /\ excludedStocks # {}
  /\ Len(activeStocks) < Len(AllStocksOf(selectedDates, dailyData))

\* C8: over the active stocks, totalInvested is the sum of the buy prices, totalValue
\* the sum of the close prices, totalProfit their difference, and totalProfitRate (in
\* 1/100 percent) the integer nearest to totalProfit / totalInvested * 10000 when
\* totalInvested > 0, else 0.
C8_SummaryArithmetic ==
  LET inv == SumBuy(ActivePositions)
      val == SumClose(ActivePositions)
      r == summary.totalProfitRate
  IN /\ summary.totalStocks = Cardinality(ActivePositions)
     /\ summary.totalInvested = inv
     /\ summary.totalValue = val
     /\ summary.totalProfit = val - inv
     /\ inv > 0 => /\ (2 * r - 1) * inv <= 2 * (val - inv) * 10000
                   /\ 2 * (val - inv) * 10000 < (2 * r + 1) * inv
     /\ inv <= 0 => r = 0

\* C8 witness: the two positions bought at 10000 and 20000 and closed at 11000 and
\* 19000 are the active ones, with an excluded stock elsewhere: 30000, 30000, 0, 0
C8_Witness ==
  /\ {<<BuyAt(p), CloseAt(p)>> : p \in ActivePositions} = {<<10000, 11000>>, <<20000, 19000>>}
  /\ Len(AllStocksOf(selectedDates, dailyData)) > 2
  /\ summary.totalInvested = 30000
  /\ summary.totalValue = 30000
  /\ summary.totalProfit = 0
  /\ summary.totalProfitRate = 0

\* C9: toggleAllStocks(date, codes) un-excludes all the given codes when every one
\* is excluded, and otherwise excludes all of them, after which a second call leaves
\* all of them included; keys of other dates and other codes are untouched.
C9_GroupToggle ==
  [][\A d \in PTDates, cs \in CodeLists :
       toggleAllStocks(d, cs) =>
         LET keys == {<<d, cs[i]>> : i \in 1..Len(cs)}
         IN /\ keys \subseteq excludedStocks => excludedStocks' = excludedStocks \ keys
            /\ ~(keys \subseteq excludedStocks) =>
                 /\ excludedStocks' = excludedStocks \cup keys
                 /\ GroupToggled(excludedStocks', d, cs) = excludedStocks \ keys
            /\ excludedStocks' \ keys = excludedStocks \ keys]_vars

\* C9 witness: every code of one date is excluded while the other date keeps a
\* partial exclusion of its own
C9_Witness ==
  \E d \in PTDates, e \in PTDates :
    /\ d # e
    /\ \A c \in PTCodes : <<d, c>> \in excludedStocks
    /\ \E c \in PTCodes : <<e, c>> \in excludedStocks
    /\ \E c \in PTCodes : <<e, c>> \notin excludedStocks

\* C24: when a fetchIndex call settles after the index loaded, dailyData holds
\* exactly the days whose file fetch of this call succeeded, each with the content
\* the server served, the days whose fetch failed are absent, and no error is set,
\* whichever files failed and in whatever order the fetches completed.
C24_PartialLoadTolerance ==
  [][FetchIndexSettle =>
       /\ \A d \in PTDates :
            /\ dailyData'[d].has = (ptOutcome[d] = "loaded")
            /\ ptOutcome[d] = "loaded" => dailyData'[d].stocks = serverFiles[d]
       /\ \A d \in SeqRange(index) : ptOutcome[d] \in {"loaded", "failed"}
       /\ ptError' = NULL
       /\ ~ptLoading']_vars

\* C24 witness: a call settled with one day loaded and another day failed
C24_Witness ==
  /\ ptPc = "idle"
  /\ ptError = NULL
  /\ \E d, e \in SeqRange(index) :
       /\ ptOutcome[d] = "loaded"
       /\ ptOutcome[e] = "failed"
       /\ dailyData[d].has
       /\ ~dailyData[e].has

\* C30: toggleStock, toggleAllStocks and resetExcluded leave selectedDates and
\* dailyData unchanged, toggleDate and toggleAllDates leave the exclusion set
\* unchanged, and after deselecting a date, selecting it again gives the summary of
\* before the deselection.
C30_ToggleFrames ==
  /\ [][((\E d \in PTDates, c \in PTCodes : toggleStock(d, c))
          \/ (\E d \in PTDates, cs \in CodeLists : toggleAllStocks(d, cs))
          \/ resetExcluded) =>
          UNCHANGED <<selectedDates, dailyData>>]_vars
  /\ [][((\E d \in PTDates : toggleDate(d)) \/ toggleAllDates) =>
          excludedStocks' = excludedStocks]_vars
  /\ [][\A d \in PTDates :
          (toggleDate(d) /\ d \in selectedDates) =>
            /\ d \notin selectedDates'
            /\ SummaryOf(selectedDates' \cup {d}, dailyData', excludedStocks') = summary]_vars

\* C30 witness: a loaded date with an excluded stock is deselected and keeps its
\* exclusion
C30_Witness ==
  \E d \in SeqRange(index), c \in PTCodes :
    /\ dailyData[d].has
    /\ d \notin selectedDates
    /\ <<d, c>> \in excludedStocks
    /\ \E i \in 1..Len(dailyData[d].stocks) : dailyData[d].stocks[i].code = c

\* C19: toggleAllDates empties selectedDates when every date of the index is
\* selected and otherwise makes it the set of all dates of the index; toggleDate
\* flips the membership of exactly the given date.
C19_ToggleAllDates ==
  /\ [][toggleAllDates =>
          selectedDates' = IF SeqRange(index) \subseteq selectedDates
                           THEN {}
                           ELSE SeqRange(index)]_vars
  /\ [][\A d \in PTDates :
          toggleDate(d) =>
            /\ (d \in selectedDates') # (d \in selectedDates)
            /\ selectedDates' \ {d} = selectedDates \ {d}]_vars

\* C19 witness: with a two-date index, one date selected and one not
C19_Witness ==
  /\ Len(index) = 2
  /\ Cardinality(selectedDates) = 1
  /\ selectedDates \subseteq SeqRange(index)

HighOrCloseAt(p) == HighOrClose(dailyData[p[1]].stocks[p[2]])

RECURSIVE SumHighOrClose(_)
SumHighOrClose(S) ==
  IF S = {} THEN 0
  ELSE LET x == CHOOSE y \in S : TRUE IN HighOrCloseAt(x) + SumHighOrClose(S \ {x})

\* C20 (as stated): in the "high" mode the aggregate totalValue shown is the sum,
\* over the active stocks, of high_price when present and close_price otherwise, and
\* totalProfit and totalProfitRate derive from it; in the "close" mode it is the sum
\* of close_price.
C20_SellAtHigh ==
  LET inv == SumBuy(ActivePositions)
      val == IF ptActiveTab = "high"
             THEN SumHighOrClose(ActivePositions)
             ELSE SumClose(ActivePositions)
      r == shownSummary.totalProfitRate
  IN /\ shownSummary.totalValue = val
     /\ shownSummary.totalProfit = val - inv
     /\ inv > 0 => /\ (2 * r - 1) * inv <= 2 * (val - inv) * 10000
                   /\ 2 * (val - inv) * 10000 < (2 * r + 1) * inv

(***************************************************************************)
(* Clock                                                                   *)
(***************************************************************************)
\* number of clock advances explored
MaxTicks == 3

ClockInit == now = 0 /\ ticks = 0

(***************************************************************************)
(* ExpireStorage: localStorage wrapper with session expiry                 *)
(***************************************************************************)
SESSION_DURATION_MS == 28800000

\* the keys the auth client stores under (token and code verifier)
StoreKeys == {"sb-auth-token", "sb-auth-token-code-verifier"}
StoreValues == {"sessionA", "sessionB"}

\* raw localStorage entries: none, a string that does not parse as a WrappedItem,
\* or JSON.stringify({value, __expire__})
Absent == [kind |-> "absent", value |-> "", expire |-> 0]
Plain(text) == [kind |-> "plain", value |-> text, expire |-> 0]
WrappedItem(value, expire) == [kind |-> "wrapped", value |-> value, expire |-> expire]

\* JSON.parse(raw) succeeded and isWrappedItem(parsed)
isWrappedItem(raw) == raw.kind = "wrapped"

\* ExpireStorage.isAdmin()
ExpireStorage_isAdmin == adminFlag = "1"

GetItemMutNoDelete(k) ==
  LET raw == storage[k]
  IN IF raw.kind = "absent" THEN [ret |-> NULL, storage |-> storage]
     ELSE IF isWrappedItem(raw)
          THEN IF ExpireStorage_isAdmin THEN [ret |-> raw.value, storage |-> storage]
               ELSE IF now > raw.expire
                    THEN [ret |-> NULL, storage |-> storage]
                    ELSE [ret |-> raw.value, storage |-> storage]
          ELSE [ret |-> raw.value, storage |-> storage]

GetItemMutNoBypass(k) ==
  LET raw == storage[k]
  IN IF raw.kind = "absent" THEN [ret |-> NULL, storage |-> storage]
     ELSE IF isWrappedItem(raw)
          THEN IF now > raw.expire
               THEN [ret |-> NULL, storage |-> [storage EXCEPT ![k] = Absent]]
               ELSE [ret |-> raw.value, storage |-> storage]
          ELSE [ret |-> raw.value, storage |-> storage]

\* ExpireStorage.getItem(key): the value returned and localStorage afterwards
ExpireStorage_getItem(k) ==
  LET raw == storage[k]
  IN IF raw.kind = "absent" THEN [ret |-> NULL, storage |-> storage]
     ELSE IF isWrappedItem(raw)
          THEN IF ExpireStorage_isAdmin THEN [ret |-> raw.value, storage |-> storage]
               ELSE IF now > raw.expire
                    THEN [ret |-> NULL, storage |-> [storage EXCEPT ![k] = Absent]]
                    ELSE [ret |-> raw.value, storage |-> storage]
          ELSE [ret |-> raw.value, storage |-> storage]

\* ExpireStorage.setItem(key, value): localStorage afterwards
ExpireStorage_setItem(k, v) ==
  [storage EXCEPT ![k] = WrappedItem(v, now + SESSION_DURATION_MS)]

NoGet == [key |-> NULL, ret |-> NULL]
NotWritten == [set |-> FALSE, at |-> 0, since |-> 0, value |-> ""]

StoreInit ==
  /\ storage \in [StoreKeys -> {Absent, Plain("legacy")}]
  /\ adminFlag = NULL
  /\ lastGet = NoGet
  /\ written = [k \in StoreKeys |-> NotWritten]

\* the store as the other subsystems leave it
StoreRest ==
  /\ storage = [k \in StoreKeys |-> Absent]
  /\ adminFlag = NULL
  /\ lastGet = NoGet
  /\ written = [k \in StoreKeys |-> NotWritten]

\* the record of a setItem(k, v) made now
WrittenBySet(k, v) ==
  [written EXCEPT ![k] =
     [set |-> TRUE, at |-> now, value |-> v,
      since |-> IF written[k].set /\ isWrappedItem(storage[k])
                THEN written[k].since ELSE now]]

SetItem(k, v) ==
  /\ storage' = ExpireStorage_setItem(k, v)
  /\ written' = WrittenBySet(k, v)
  /\ UNCHANGED <<adminFlag, lastGet, clockVars>>
  /\ UNCHANGED notStore

GetItem(k) ==
  /\ storage' = ExpireStorage_getItem(k).storage
  /\ lastGet' = [key |-> k, ret |-> ExpireStorage_getItem(k).ret]
  /\ UNCHANGED <<adminFlag, written, clockVars>>
  /\ UNCHANGED notStore

RemoveItem(k) ==
  /\ storage' = [storage EXCEPT ![k] = Absent]
  /\ written' = [written EXCEPT ![k] = NotWritten]
  /\ UNCHANGED <<adminFlag, lastGet, clockVars>>
  /\ UNCHANGED notStore

SetAdmin(isAdmin) ==
  /\ adminFlag' = IF isAdmin THEN "1" ELSE NULL
  /\ UNCHANGED <<storage, lastGet, written, clockVars>>
  /\ UNCHANGED notStore

\* time passes
StoreDeltas == {1, SESSION_DURATION_MS}

StoreAdvance(d) ==
  /\ ticks < MaxTicks
  /\ now' = now + d
  /\ ticks' = ticks + 1
  /\ UNCHANGED storeVars
  /\ UNCHANGED notStore

StoreNext ==
  \/ \E k \in StoreKeys, v \in StoreValues : SetItem(k, v)
  \/ \E k \in StoreKeys : GetItem(k)
  \/ \E k \in StoreKeys : RemoveItem(k)
  \/ \E b \in BOOLEAN : SetAdmin(b)
  \/ \E d \in StoreDeltas : StoreAdvance(d)

PaperRest ==
  /\ PaperInit
  /\ serverIndex = <<>>
  /\ serverFiles = [d \in PTDates |-> IF d = "2026-02-10" THEN DayA ELSE DayB]


\* C4: a getItem by a non-exempt user on an entry written by setItem at time t
\* returns the written value and leaves the entry alone while now < t +
\* SESSION_DURATION_MS, and returns null and deletes the entry once now > t +
\* SESSION_DURATION_MS.
C4_SessionExpiry ==
  [][\A k \in StoreKeys :
       (GetItem(k) /\ ~ExpireStorage_isAdmin /\ written[k].set) =>
         /\ now < written[k].at + SESSION_DURATION_MS =>
              /\ lastGet' = [key |-> k, ret |-> written[k].value]
              /\ storage' = storage
              /\ storage[k].kind = "wrapped"
         /\ now > written[k].at + SESSION_DURATION_MS =>
              /\ lastGet' = [key |-> k, ret |-> NULL]
              /\ storage'[k] = Absent]_vars

\* C4 witness: a non-exempt getItem after the duration returned null and the entry
\* written by setItem is gone
C4_Witness ==
  \E k \in StoreKeys :
    /\ ~ExpireStorage_isAdmin
    /\ written[k].set
    /\ now > written[k].at + SESSION_DURATION_MS
    /\ lastGet = [key |-> k, ret |-> NULL]
    /\ storage[k] = Absent

\* C16 (as stated): for a non-exempt user, once SESSION_DURATION_MS has elapsed
\* since the entry was first written (the sign-in), getItem returns null, whatever
\* store operations came in between, a re-write by setItem included.
C16_AbsoluteLimit ==
  [][\A k \in StoreKeys :
       (/\ GetItem(k)
        /\ ~ExpireStorage_isAdmin
        /\ written[k].set
        /\ isWrappedItem(storage[k])
        /\ now > written[k].since + SESSION_DURATION_MS) =>
         lastGet' = [key |-> k, ret |-> NULL]]_vars

\* C5: while the exempt flag is set, getItem on a wrapped entry returns the inner
\* value and leaves localStorage unchanged, whatever the stored expiry and the time.
C5_ExemptBypass ==
  [][\A k \in StoreKeys :
       (GetItem(k) /\ ExpireStorage_isAdmin /\ isWrappedItem(storage[k])) =>
         /\ lastGet' = [key |-> k, ret |-> storage[k].value]
         /\ storage' = storage]_vars

\* C5 witness: with the exempt flag set, getItem returned the value of an entry
\* whose expiry has passed, and the entry is still stored
C5_Witness ==
  \E k \in StoreKeys :
    /\ ExpireStorage_isAdmin
    /\ isWrappedItem(storage[k])
    /\ now > storage[k].expire
    /\ lastGet = [key |-> k, ret |-> storage[k].value]

(***************************************************************************)
(* AuthProvider: session state and inactivity monitor                      *)
(***************************************************************************)
INACTIVITY_TIMEOUT_MS == 3600000
ACTIVITY_THROTTLE_MS == 30000

\* user objects; ver tells apart two objects that describe the same user
NoUser == [id |-> "", role |-> "", ver |-> 0]
UserObject(id, role, ver) == [id |-> id, role |-> role, ver |-> ver]
Accounts == {[id |-> "u1", role |-> "user"], [id |-> "root", role |-> "admin"]}

NoSession == [present |-> FALSE, user |-> NoUser]
SessionOf(u) == IF u = NoUser THEN NoSession ELSE [present |-> TRUE, user |-> u]

\* const isAdmin = user?.user_metadata?.role === "admin"
isAdminOf(u) == u # NoUser /\ u.role = "admin"
isAdmin == isAdminOf(user)

NoTimer == [set |-> FALSE, deadline |-> 0, pending |-> FALSE]

\* resetInactivityTimer(): clear the old timeout, start a new one
resetInactivityTimer == [set |-> TRUE, deadline |-> now + INACTIVITY_TIMEOUT_MS, pending |-> TRUE]

\* the inactivity effect ran its body past the early return for this user
MonitorOn(u) == u # NoUser /\ ~isAdminOf(u)

InactivityEffectMutNoCleanup(old, new) ==
  IF old = new THEN inactivityTimer
  ELSE IF MonitorOn(new) THEN resetInactivityTimer
  ELSE inactivityTimer

\* useEffect(..., [isAdmin, user, resetInactivityTimer]): the timer after the
\* render that replaces user object old by new (cleanup of the previous run, then
\* the body); React skips the effect when no dependency changed
InactivityEffect(old, new) ==
  IF old = new THEN inactivityTimer
  ELSE IF MonitorOn(new) THEN resetInactivityTimer
  ELSE NoTimer

\* useEffect(() => ExpireStorage.setAdmin(isAdmin), [isAdmin])
AdminSyncEffect(old, new, flag) ==
  IF isAdminOf(old) = isAdminOf(new) THEN flag
  ELSE IF isAdminOf(new) THEN "1" ELSE NULL

ActivityAcceptedMutNoThrottle(last) == TRUE

\* handleActivity: now - lastActivityRef.current > ACTIVITY_THROTTLE_MS
ActivityAccepted(last) == now - last > ACTIVITY_THROTTLE_MS

\* the getSession() call of the mount effect: not followed, issued, answered by the
\* backend with a session, rejected, or delivered to its callbacks
NoFetch == [stage |-> "none", user |-> NoUser]

MountRest ==
  /\ sessionFetch = NoFetch
  /\ lastQuery = "none"

\* the state right after mount: no user, loading, effects have run once
AuthInit ==
  /\ user = NoUser
  /\ session = NoSession
  /\ authLoading = TRUE
  /\ inactivityTimer = NoTimer
  /\ lastActivityRef = 0
  /\ backendUser \in {NoUser} \cup {UserObject(a.id, a.role, 0) : a \in Accounts}
  /\ lastEventAt = -1
  /\ burstResets = 0
  /\ resetTimes = <<-1, -1>>
  /\ activeSince = -1
  /\ signOutIssued = <<>>

AuthRest ==
  /\ AuthInit
  /\ backendUser = NoUser

\* a user object the backend hands out for account a, distinct from the current one
FreshUser(a) == UserObject(a.id, a.role, 1 - user.ver)

\* setSession(s); setUser(s?.user ?? null), and the effects of the next render
SetSessionAndUser(u) ==
  /\ session' = SessionOf(u)
  /\ user' = u
  /\ inactivityTimer' = InactivityEffect(user, u)
  /\ activeSince' = IF ~MonitorOn(u) THEN -1
                    ELSE IF MonitorOn(user) THEN activeSince ELSE now

\* supabase.auth.getSession().then(...) of the mount effect
RestoreSession ==
  /\ authLoading
  /\ \E u \in {backendUser} \cup {IF backendUser = NoUser THEN NoUser
                                  ELSE [backendUser EXCEPT !.ver = 1 - backendUser.ver]} :
       /\ SetSessionAndUser(u)
       /\ adminFlag' = AdminSyncEffect(user, u, adminFlag)
  /\ authLoading' = FALSE
  /\ UNCHANGED <<lastActivityRef, backendUser, lastEventAt, burstResets, resetTimes,
                 signOutIssued, clockVars>>
  /\ UNCHANGED notAuth

\* onAuthStateChange callback, event SIGNED_IN
SignedIn(a) ==
  /\ backendUser = NoUser
  /\ backendUser' = FreshUser(a)
  /\ SetSessionAndUser(FreshUser(a))
  /\ adminFlag' = AdminSyncEffect(user, FreshUser(a), adminFlag)
  /\ UNCHANGED <<authLoading, lastActivityRef, lastEventAt, burstResets, resetTimes,
                 signOutIssued, clockVars>>
  /\ UNCHANGED notAuth

\* onAuthStateChange callback, event TOKEN_REFRESHED: same account, new objects
TokenRefreshed ==
  /\ backendUser # NoUser
  /\ LET u == FreshUser(backendUser)
     IN /\ backendUser' = u
        /\ SetSessionAndUser(u)
        /\ adminFlag' = AdminSyncEffect(user, u, adminFlag)
  /\ UNCHANGED <<authLoading, lastActivityRef, lastEventAt, burstResets, resetTimes,
                 signOutIssued, clockVars>>
  /\ UNCHANGED notAuth

\* the role attribute after an update of the user's metadata
OtherRole(role) == IF role = "admin" THEN "user" ELSE "admin"

\* onAuthStateChange callback, event USER_UPDATED: the role attribute of the signed-in
\* user changed, new objects
UserUpdated ==
  /\ backendUser # NoUser
  /\ LET u == FreshUser([id |-> backendUser.id, role |-> OtherRole(backendUser.role)])
     IN /\ backendUser' = u
        /\ SetSessionAndUser(u)
        /\ adminFlag' = AdminSyncEffect(user, u, adminFlag)
  /\ UNCHANGED <<authLoading, lastActivityRef, lastEventAt, burstResets, resetTimes,
                 signOutIssued, clockVars>>
  /\ UNCHANGED notAuth

\* onAuthStateChange callback, event SIGNED_OUT: ExpireStorage.setAdmin(false)
SignedOut ==
  /\ backendUser # NoUser
  /\ backendUser' = NoUser
  /\ SetSessionAndUser(NoUser)
  /\ adminFlag' = NULL
  /\ UNCHANGED <<authLoading, lastActivityRef, lastEventAt, burstResets, resetTimes,
                 signOutIssued, clockVars>>
  /\ UNCHANGED notAuth

\* the "logout" row insertActivityLog sends for user u
LogoutRow(u) == [op |-> "insert user_activity_log", user_id |-> u.id, action_type |-> "logout"]
BackendSignOut == [op |-> "auth.signOut", user_id |-> "", action_type |-> ""]

SignOutRequestsMutSignOutFirst(u) ==
  IF u # NoUser THEN <<BackendSignOut, LogoutRow(u)>> ELSE <<BackendSignOut>>

\* the requests signOut() issues: if (user) insertActivityLog(..., "logout");
\* await supabase.auth.signOut()
SignOutRequests(u) ==
  IF u # NoUser THEN <<LogoutRow(u), BackendSignOut>> ELSE <<BackendSignOut>>

\* signOut(); the backend answers with a SIGNED_OUT notification later
signOut ==
  /\ signOutIssued' = SignOutRequests(user)
  /\ UNCHANGED <<user, session, authLoading, inactivityTimer, lastActivityRef, backendUser,
                 lastEventAt, burstResets, resetTimes, activeSince, adminFlag, clockVars>>
  /\ UNCHANGED notAuth

\* mousedown / keydown / scroll / touchstart while the listeners are attached
HandleActivity ==
  /\ MonitorOn(user)
  /\ LET accepted == ActivityAccepted(lastActivityRef)
         inBurst == lastEventAt >= 0 /\ now - lastEventAt < ACTIVITY_THROTTLE_MS
     IN /\ lastActivityRef' = IF accepted THEN now ELSE lastActivityRef
        /\ inactivityTimer' = IF accepted THEN resetInactivityTimer ELSE inactivityTimer
        /\ burstResets' = (IF inBurst THEN burstResets ELSE 0) + (IF accepted THEN 1 ELSE 0)
        /\ resetTimes' = IF accepted THEN <<resetTimes[2], now>> ELSE resetTimes
  /\ lastEventAt' = now
  /\ UNCHANGED <<user, session, authLoading, backendUser, activeSince, signOutIssued,
                 adminFlag, clockVars>>
  /\ UNCHANGED notAuth

\* the inactivity timeout fires: supabase.auth.signOut(); the backend answers
\* with a SIGNED_OUT notification later
InactivityTimeout ==
  /\ inactivityTimer.pending
  /\ now >= inactivityTimer.deadline
  /\ inactivityTimer' = [inactivityTimer EXCEPT !.pending = FALSE]
  /\ UNCHANGED <<user, session, authLoading, lastActivityRef, backendUser, lastEventAt,
                 burstResets, resetTimes, activeSince, signOutIssued, adminFlag, clockVars>>
  /\ UNCHANGED notAuth

\* time passes, up to the deadline of a pending timeout
AuthDeltas == {1, ACTIVITY_THROTTLE_MS - 1, ACTIVITY_THROTTLE_MS, INACTIVITY_TIMEOUT_MS}

AuthAdvance(d) ==
  /\ ticks < MaxTicks
  /\ ~(inactivityTimer.pending /\ now >= inactivityTimer.deadline)
  /\ now' = IF inactivityTimer.pending /\ now + d > inactivityTimer.deadline
            THEN inactivityTimer.deadline
            ELSE now + d
  /\ ticks' = ticks + 1
  /\ UNCHANGED <<authVars, adminFlag>>
  /\ UNCHANGED notAuth

AuthNext ==
  \/ RestoreSession
  \/ \E a \in Accounts : SignedIn(a)
  \/ TokenRefreshed
  \/ SignedOut
  \/ signOut
  \/ HandleActivity
  \/ InactivityTimeout
  \/ \E d \in AuthDeltas : AuthAdvance(d)

\* the inactivity monitor with changes of the role attribute
MonitorDeltas == {ACTIVITY_THROTTLE_MS + 1, INACTIVITY_TIMEOUT_MS}

MonitorNext ==
  \/ RestoreSession
  \/ \E a \in Accounts : SignedIn(a)
  \/ TokenRefreshed
  \/ UserUpdated
  \/ SignedOut
  \/ HandleActivity
  \/ InactivityTimeout
  \/ \E d \in MonitorDeltas : AuthAdvance(d)

(***************************************************************************)
(* AuthProvider: the mount effect's getSession() call in flight            *)
(***************************************************************************)
\* the mount effect has called supabase.auth.getSession() and subscribed to
\* onAuthStateChange; the call has not settled yet
MountInit ==
  /\ sessionFetch = [stage |-> "issued", user |-> NoUser]
  /\ lastQuery = "none"

\* the client resolves getSession() with the session it holds at that moment; the
\* .then callback is queued and runs in a later step
GetSessionAnswered ==
  /\ sessionFetch.stage = "issued"
  /\ sessionFetch' = [stage |-> "answered", user |-> backendUser]
  /\ UNCHANGED <<lastQuery, authVars, storeVars, clockVars>>
  /\ UNCHANGED notMount

\* getSession() rejects: the promise has a .then(onFulfilled) and nothing else, so
\* no callback of the provider runs
GetSessionRejected ==
  /\ sessionFetch.stage = "issued"
  /\ sessionFetch' = [stage |-> "rejected", user |-> NoUser]
  /\ UNCHANGED <<lastQuery, authVars, storeVars, clockVars>>
  /\ UNCHANGED notMount

\* the .then callback runs with the session the call was answered with:
\* setSession(session); setUser(session?.user ?? null); setLoading(false)
GetSessionDelivered ==
  /\ sessionFetch.stage = "answered"
  /\ sessionFetch' = [sessionFetch EXCEPT !.stage = "delivered"]
  /\ SetSessionAndUser(sessionFetch.user)
  /\ adminFlag' = AdminSyncEffect(user, sessionFetch.user, adminFlag)
  /\ authLoading' = FALSE
  /\ UNCHANGED <<lastActivityRef, backendUser, lastEventAt, burstResets, resetTimes,
                 signOutIssued, clockVars>>
  /\ UNCHANGED <<lastQuery, storage, lastGet, written>>
  /\ UNCHANGED notMount

MountNext ==
  \/ GetSessionAnswered
  \/ GetSessionRejected
  \/ GetSessionDelivered
  \/ \E a \in Accounts : SignedIn(a)
  \/ TokenRefreshed
  \/ UserUpdated
  \/ SignedOut

\* C28: the session the client holds is the one of its latest notification (none
\* after SIGNED_OUT); whenever the client holds none, local user and session are
\* null, so a getSession() result delivered after a SIGNED_OUT notification does
\* not bring the user back.
C28_NoStaleSession ==
  backendUser = NoUser => (user = NoUser /\ session = NoSession)

\* C29: after mount the loading flag eventually becomes false, whichever way the
\* getSession() call of the mount effect settles.
C29_LoadingTerminates == <>(~authLoading)

LaterOf(a, b) == IF a >= b THEN a ELSE b

\* C12 (as stated): while a non-exempt user is authenticated the countdown runs
\* out INACTIVITY_TIMEOUT_MS after the later of the entry to ACTIVE and the last
\* accepted activity event: nothing else, a token refresh that replaces the user
\* object included, restarts it.
C12_OnlyActivityRestarts ==
  (MonitorOn(user) /\ inactivityTimer.pending) =>
    inactivityTimer.deadline = LaterOf(activeSince, resetTimes[2]) + INACTIVITY_TIMEOUT_MS

\* C21: whenever no user is authenticated or the authenticated user is exempt, no
\* inactivity countdown is pending (sign-out, becoming exempt and unauthentication
\* each cancel it), and the countdown fires only for a present, non-exempt user.
C21_NoCountdownWhileIdle ==
  /\ []((user = NoUser \/ isAdminOf(user)) => ~inactivityTimer.pending)
  /\ [][InactivityTimeout => (user # NoUser /\ ~isAdminOf(user))]_vars
  /\ [][(inactivityTimer.pending /\ (SignedOut \/ UserUpdated)) =>
          ~inactivityTimer'.pending]_vars

\* C21 witness: a non-exempt user with a running countdown became exempt, and the
\* countdown is gone
C21_Witness ==
  /\ isAdminOf(user)
  /\ user.id = "u1"
  /\ activeSince = -1
  /\ inactivityTimer = NoTimer
  /\ lastActivityRef > 0

\* C17: signOut() issues the insert of the "logout" row of the known user before the
\* backend sign-out call, and issues no insert when no user is known; once the
\* SIGNED_OUT notification has been processed the exempt flag of the store is off.
C17_SignOutOrdering ==
  /\ [][signOut =>
          /\ \E j \in 1..Len(signOutIssued') : signOutIssued'[j] = BackendSignOut
          /\ \A i \in 1..Len(signOutIssued') :
               signOutIssued'[i].op = "insert user_activity_log" =>
                 /\ user # NoUser
                 /\ signOutIssued'[i] = LogoutRow(user)
                 /\ \E j \in (i + 1)..Len(signOutIssued') : signOutIssued'[j] = BackendSignOut
          /\ user # NoUser =>
               \E i \in 1..Len(signOutIssued') : signOutIssued'[i] = LogoutRow(user)]_vars
  /\ [][SignedOut => ~ExpireStorage_isAdmin']_vars

\* C17 witness: an admin called signOut() and the SIGNED_OUT notification has been
\* processed
C17_Witness ==
  /\ Len(signOutIssued) = 2
  /\ signOutIssued[1].user_id = "root"
  /\ user = NoUser
  /\ backendUser = NoUser
  /\ ~authLoading
  /\ ~ExpireStorage_isAdmin

(***************************************************************************)
(* AuthProvider over the auth client that persists its session in          *)
(* ExpireStorage (createClient({auth: {storage: ExpireStorage}}))          *)
(***************************************************************************)
\* the key the auth client keeps the session under
TokenKey == "sb-auth-token"

\* the account a stored session belongs to
AccountOf(id) == CHOOSE a \in Accounts : a.id = id

\* sign-in through the backend: the client stores the session with setItem and
\* notifies SIGNED_IN
SessionSignIn(a) ==
  /\ ~authLoading
  /\ user = NoUser
  /\ storage' = ExpireStorage_setItem(TokenKey, a.id)
  /\ written' = WrittenBySet(TokenKey, a.id)
  /\ backendUser' = FreshUser(a)
  /\ SetSessionAndUser(FreshUser(a))
  /\ adminFlag' = AdminSyncEffect(user, FreshUser(a), adminFlag)
  /\ UNCHANGED <<authLoading, lastActivityRef, lastEventAt, burstResets, resetTimes,
                 signOutIssued, lastGet, clockVars>>
  /\ UNCHANGED notAuth_Store

\* token refresh: the client re-writes the session with setItem and notifies
\* TOKEN_REFRESHED with new objects
SessionTokenRefreshed ==
  /\ user # NoUser
  /\ storage' = ExpireStorage_setItem(TokenKey, user.id)
  /\ written' = WrittenBySet(TokenKey, user.id)
  /\ LET u == FreshUser(user)
     IN /\ backendUser' = u
        /\ SetSessionAndUser(u)
        /\ adminFlag' = AdminSyncEffect(user, u, adminFlag)
  /\ UNCHANGED <<authLoading, lastActivityRef, lastEventAt, burstResets, resetTimes,
                 signOutIssued, lastGet, clockVars>>
  /\ UNCHANGED notAuth_Store

\* page reload: AuthProvider mounts again with its initial state, and its effects
\* run in order: ExpireStorage.setAdmin(isAdmin) with isAdmin false, the inactivity
\* effect (no user: no timer), then the mount effect, which calls getSession()
Reload ==
  /\ ~authLoading
  /\ user' = NoUser
  /\ session' = NoSession
  /\ authLoading' = TRUE
  /\ inactivityTimer' = NoTimer
  /\ lastActivityRef' = now
  /\ activeSince' = -1
  /\ adminFlag' = NULL
  /\ UNCHANGED <<backendUser, lastEventAt, burstResets, resetTimes, signOutIssued,
                 storage, lastGet, written, clockVars>>
  /\ UNCHANGED notAuth_Store

\* getSession() of the mount effect answers: the client reads the stored session
\* through ExpireStorage.getItem; setSession / setUser / setLoading(false)
SessionRestored ==
  /\ authLoading
  /\ LET got == ExpireStorage_getItem(TokenKey)
         u == IF got.ret = NULL THEN NoUser
              ELSE UserObject(got.ret, AccountOf(got.ret).role, 1)
     IN /\ storage' = got.storage
        /\ lastGet' = [key |-> TokenKey, ret |-> got.ret]
        /\ SetSessionAndUser(u)
        /\ adminFlag' = AdminSyncEffect(user, u, adminFlag)
  /\ authLoading' = FALSE
  /\ lastQuery' = "mount"
  /\ UNCHANGED <<lastActivityRef, backendUser, lastEventAt, burstResets, resetTimes,
                 signOutIssued, written, clockVars>>
  /\ UNCHANGED notSession

UserAfterVisibilityMutKeepsUser(ret, u) == u

\* if (!session) { setSession(null); setUser(null) }: the user after the re-check
UserAfterVisibility(ret, u) == IF ret = NULL THEN NoUser ELSE u

\* handleVisibility on return to the tab (attached for a non-exempt user): the
\* session is read again, and a missing one signs the user out locally
VisibilityChecked ==
  /\ user # NoUser
  /\ ~isAdmin
  /\ LET got == ExpireStorage_getItem(TokenKey)
         u == UserAfterVisibility(got.ret, user)
     IN /\ storage' = got.storage
        /\ lastGet' = [key |-> TokenKey, ret |-> got.ret]
        /\ SetSessionAndUser(u)
        /\ adminFlag' = AdminSyncEffect(user, u, adminFlag)
  /\ lastQuery' = "visibility"
  /\ UNCHANGED <<authLoading, lastActivityRef, backendUser, lastEventAt, burstResets,
                 resetTimes, signOutIssued, written, clockVars>>
  /\ UNCHANGED notSession

\* explicit sign-out: signOut(), the client removes the stored session and
\* notifies SIGNED_OUT
SessionSignOut ==
  /\ user # NoUser
  /\ signOutIssued' = SignOutRequests(user)
  /\ storage' = [storage EXCEPT ![TokenKey] = Absent]
  /\ written' = [written EXCEPT ![TokenKey] = NotWritten]
  /\ backendUser' = NoUser
  /\ SetSessionAndUser(NoUser)
  /\ adminFlag' = NULL
  /\ UNCHANGED <<authLoading, lastActivityRef, lastEventAt, burstResets, resetTimes,
                 lastGet, clockVars>>
  /\ UNCHANGED notAuth_Store

\* the inactivity timeout fires: supabase.auth.signOut(), the client removes the
\* stored session and notifies SIGNED_OUT
InactivitySignOut ==
  /\ inactivityTimer.pending
  /\ now >= inactivityTimer.deadline
  /\ storage' = [storage EXCEPT ![TokenKey] = Absent]
  /\ written' = [written EXCEPT ![TokenKey] = NotWritten]
  /\ backendUser' = NoUser
  /\ SetSessionAndUser(NoUser)
  /\ adminFlag' = NULL
  /\ UNCHANGED <<authLoading, lastActivityRef, lastEventAt, burstResets, resetTimes,
                 signOutIssued, lastGet, clockVars>>
  /\ UNCHANGED notAuth_Store

\* time passes, up to the deadline of a pending timeout
SessionDeltas == {1, SESSION_DURATION_MS}

SessionAdvance(d) ==
  /\ ticks < MaxTicks
  /\ ~(inactivityTimer.pending /\ now >= inactivityTimer.deadline)
  /\ now' = IF inactivityTimer.pending /\ now + d > inactivityTimer.deadline
            THEN inactivityTimer.deadline
            ELSE now + d
  /\ ticks' = ticks + 1
  /\ UNCHANGED <<authVars, storeVars>>
  /\ UNCHANGED notAuth_Store

SessionNext ==
  \/ \E a \in Accounts : SessionSignIn(a)
  \/ SessionTokenRefreshed
  \/ Reload
  \/ SessionRestored
  \/ VisibilityChecked
  \/ SessionSignOut
  \/ InactivitySignOut
  \/ HandleActivity
  \/ \E d \in SessionDeltas : SessionAdvance(d)

\* the stored session and the re-check on return to the tab
VisibilityNext ==
  \/ \E a \in Accounts : SessionSignIn(a)
  \/ SessionTokenRefreshed
  \/ Reload
  \/ SessionRestored
  \/ VisibilityChecked
  \/ SessionSignOut
  \/ InactivitySignOut
  \/ \E d \in SessionDeltas : SessionAdvance(d)

\* C22: when the page becomes visible while a non-exempt user is signed in, a
\* session query that reports no session clears local user and session to null in
\* that same step, whatever the state of the inactivity countdown, and a query that
\* reports a session leaves user and session as they were.
C22_VisibilityRecheck ==
  [][VisibilityChecked =>
       /\ lastGet'.ret = NULL => (user' = NoUser /\ session' = NoSession)
       /\ lastGet'.ret # NULL => UNCHANGED <<user, session>>]_vars

\* C22 witness: the stored session of a non-exempt user ran out, the user is still
\* signed in as far as the backend goes, and the local state is cleared after a
\* session query that reported nothing, with time left on the countdown clock
C22_Witness ==
  /\ ~authLoading
  /\ backendUser # NoUser
  /\ ~isAdminOf(backendUser)
  /\ user = NoUser
  /\ session = NoSession
  /\ lastQuery = "visibility"
  /\ lastGet = [key |-> TokenKey, ret |-> NULL]
  /\ written[TokenKey].set
  /\ now > written[TokenKey].at + SESSION_DURATION_MS

\* C15 (as stated): an admin who signed in and did not sign out explicitly stays
\* signed in across sign-in, activity, visibility changes, elapsed time and page
\* reloads: the stored session is never expired by the store, no inactivity
\* countdown runs, and whenever the provider has finished loading the admin is the
\* current user.
C15_AdminStaysSignedIn ==
  isAdminOf(backendUser) =>
    /\ isWrappedItem(storage[TokenKey])
    /\ ~inactivityTimer.pending
    /\ ~authLoading => (user # NoUser /\ user.id = backendUser.id)

(***************************************************************************)
(* AuthPage and AuthProvider.signIn / signUp                               *)
(***************************************************************************)
AuthTabs == {"login", "signup"}

\* how supabase.auth.signInWithPassword / signUp may end: it resolves without
\* error, resolves with an error object, or the promise rejects
AuthErrorMessages == {"Invalid login credentials", "User already registered"}
BackendOutcomes ==
  {[kind |-> "ok", message |-> NULL]}
  \cup {[kind |-> "error", message |-> m] : m \in AuthErrorMessages}
  \cup {[kind |-> "rejects", message |-> "Failed to fetch"]}

\* what the two inputs of the form may hold
Emails == {"", "a@example.com", "b@example.com"}
Passwords == {"", "secret1"}

NoResult == [settled |-> "none", error |-> NULL]

\* signIn / signUp: const { error } = await backend call; error ? { error:
\* error.message } : { error: null }; a rejection of the awaited call propagates
AuthCall(outcome) ==
  IF outcome.kind = "rejects"
  THEN [settled |-> "rejected", error |-> NULL]
  ELSE IF outcome.kind = "error"
       THEN [settled |-> "resolved", error |-> outcome.message]
       ELSE [settled |-> "resolved", error |-> NULL]

FormInit ==
  /\ tab = "login"
  /\ email = ""
  /\ password = ""
  /\ formError = NULL
  /\ formLoading = FALSE
  /\ signUpSuccess = FALSE
  /\ submitPc = "idle"
  /\ lastResult = NoResult

\* onChange of the two inputs
setEmail(v) ==
  /\ ~signUpSuccess
  /\ email' = v
  /\ UNCHANGED <<tab, password, formError, formLoading, signUpSuccess, submitPc, lastResult>>
  /\ UNCHANGED notForm

setPassword(v) ==
  /\ ~signUpSuccess
  /\ password' = v
  /\ UNCHANGED <<tab, email, formError, formLoading, signUpSuccess, submitPc, lastResult>>
  /\ UNCHANGED notForm

\* handleSubmit up to its await: setError(null); setLoading(true); signIn or signUp.
\* The form is shown while !signUpSuccess, its inputs are required and its button
\* is disabled while loading
handleSubmit ==
  /\ ~signUpSuccess
  /\ email # ""
  /\ password # ""
  /\ ~formLoading
  /\ submitPc = "idle"
  /\ formError' = NULL
  /\ formLoading' = TRUE
  /\ submitPc' = tab
  /\ UNCHANGED <<tab, email, password, signUpSuccess, lastResult>>
  /\ UNCHANGED notForm

\* the awaited signIn / signUp settles and handleSubmit resumes; when the call
\* rejects, handleSubmit rejects at the await and runs none of its remaining lines
SubmitSettled(outcome) ==
  /\ submitPc # "idle"
  /\ LET result == AuthCall(outcome)
     IN /\ lastResult' = result
        /\ IF result.settled = "rejected"
           THEN UNCHANGED <<formError, formLoading, signUpSuccess>>
           ELSE /\ formError' = IF result.error # NULL THEN result.error ELSE formError
                /\ signUpSuccess' = IF submitPc = "signup" /\ result.error = NULL
                                    THEN TRUE ELSE signUpSuccess
                /\ formLoading' = FALSE
  /\ submitPc' = "idle"
  /\ UNCHANGED <<tab, email, password>>
  /\ UNCHANGED notForm

\* switchTab(newTab)
switchTab(newTab) ==
  /\ tab' = newTab
  /\ formError' = NULL
  /\ signUpSuccess' = FALSE
  /\ UNCHANGED <<email, password, formLoading, submitPc, lastResult>>
  /\ UNCHANGED notForm

FormNext ==
  \/ \E v \in Emails : setEmail(v)
  \/ \E v \in Passwords : setPassword(v)
  \/ handleSubmit
  \/ \E o \in BackendOutcomes : SubmitSettled(o)
  \/ \E t \in AuthTabs : switchTab(t)

\* C11 (as stated): whatever the backend call does (succeeds, returns an error, or
\* itself rejects), signIn and signUp resolve, to {error: null} on success and to
\* {error: message} otherwise: every settling step ends in a resolved result, whose
\* error is null exactly when the backend call succeeded.
C11_NeverThrows ==
  [][\A o \in BackendOutcomes :
       SubmitSettled(o) =>
         /\ lastResult'.settled = "resolved"
         /\ (o.kind = "ok") = (lastResult'.error = NULL)]_vars

(***************************************************************************)
(* useStockData: static fetch and live refresh                             *)
(***************************************************************************)
\* seconds of the elapsed ticker explored
MaxElapsed == 2

\* snapshots by origin: latest.json, /api/refresh, getMockData()
StaticData == "latest.json"
LiveData == "live"
MockData == "mock"

LoadFailedMsg == "load failed"
TimedOutMsg == "server response timed out"
RefreshFailedMsg == "live refresh failed, reloading existing data"

HealthFailures == {"httpError", "networkError", "abort"}
RefreshFailures == {"abort", "httpError", "payloadError", "networkError"}

\* state after the first render and its mount effect, which calls fetchData()
FetchInit ==
  /\ data = NULL
  /\ loading = TRUE
  /\ error = NULL
  /\ refreshElapsed = 0
  /\ refreshTimerRef = FALSE
  /\ apiUrl \in BOOLEAN
  /\ fdPc = "fetching"
  /\ rfPc = "idle"
  /\ rfIssued = {}
  /\ rfHealth = "none"
  /\ rfRefresh = "none"

FetchRest ==
  /\ FetchInit
  /\ apiUrl = FALSE

\* refetch(): fetchData up to its await
Refetch ==
  /\ fdPc = "idle"
  /\ loading' = TRUE
  /\ error' = NULL
  /\ fdPc' = "fetching"
  /\ UNCHANGED <<data, refreshElapsed, refreshTimerRef, apiUrl, rfPc, rfIssued, rfHealth, rfRefresh>>
  /\ UNCHANGED notFetch

\* fetchData: latest.json loaded
FetchDataLoaded ==
  /\ fdPc = "fetching"
  /\ data' = StaticData
  /\ loading' = FALSE
  /\ fdPc' = "idle"
  /\ UNCHANGED <<error, refreshElapsed, refreshTimerRef, apiUrl, rfPc, rfIssued, rfHealth, rfRefresh>>
  /\ UNCHANGED notFetch

FetchDataFailedMutNoMock ==
  /\ fdPc = "fetching"
  /\ error' = LoadFailedMsg
  /\ loading' = FALSE
  /\ fdPc' = "idle"
  /\ UNCHANGED <<data, refreshElapsed, refreshTimerRef, apiUrl, rfPc, rfIssued, rfHealth, rfRefresh>>
  /\ UNCHANGED notFetch

\* fetchData: the fetch failed, the mock data is shown
FetchDataFailed ==
  /\ fdPc = "fetching"
  /\ error' = LoadFailedMsg
  /\ data' = MockData
  /\ loading' = FALSE
  /\ fdPc' = "idle"
  /\ UNCHANGED <<refreshElapsed, refreshTimerRef, apiUrl, rfPc, rfIssued, rfHealth, rfRefresh>>
  /\ UNCHANGED notFetch

\* refreshFromAPI without API_URL: await fetchData()
RefreshNoApi ==
  /\ rfPc = "idle"
  /\ ~apiUrl
  /\ loading' = TRUE
  /\ error' = NULL
  /\ rfPc' = "noApiStatic"
  /\ rfIssued' = {"static"}
  /\ rfHealth' = "none"
  /\ rfRefresh' = "none"
  /\ UNCHANGED <<data, refreshElapsed, refreshTimerRef, apiUrl, fdPc>>
  /\ UNCHANGED notFetch

\* refreshFromAPI up to the health probe
RefreshCall ==
  /\ rfPc = "idle"
  /\ apiUrl
  /\ loading' = TRUE
  /\ error' = NULL
  /\ refreshElapsed' = 0
  /\ rfPc' = "health"
  /\ rfIssued' = {"health"}
  /\ rfHealth' = "none"
  /\ rfRefresh' = "none"
  /\ UNCHANGED <<data, refreshTimerRef, apiUrl, fdPc>>
  /\ UNCHANGED notFetch

\* the health probe answers ok: start the ticker, issue /api/refresh
HealthOk ==
  /\ rfPc = "health"
  /\ rfHealth' = "ok"
  /\ refreshTimerRef' = TRUE
  /\ rfIssued' = rfIssued \cup {"refresh"}
  /\ rfPc' = "refresh"
  /\ UNCHANGED <<data, loading, error, refreshElapsed, apiUrl, fdPc, rfRefresh>>
  /\ UNCHANGED notFetch

HealthFailedMutProceed(kind) ==
  /\ rfPc = "health"
  /\ rfHealth' = kind
  /\ refreshTimerRef' = TRUE
  /\ rfIssued' = rfIssued \cup {"refresh"}
  /\ rfPc' = "refresh"
  /\ UNCHANGED <<data, loading, error, refreshElapsed, apiUrl, fdPc, rfRefresh>>
  /\ UNCHANGED notFetch

\* the health probe fails (status, network, abort after 5 s): await fetchData()
HealthFailed(kind) ==
  /\ rfPc = "health"
  /\ rfHealth' = kind
  /\ loading' = TRUE
  /\ error' = NULL
  /\ rfIssued' = rfIssued \cup {"static"}
  /\ rfPc' = "fallbackStatic"
  /\ UNCHANGED <<data, refreshElapsed, refreshTimerRef, apiUrl, fdPc, rfRefresh>>
  /\ UNCHANGED notFetch

\* one tick of the setInterval ticker
ElapsedTick ==
  /\ refreshTimerRef
  /\ refreshElapsed < MaxElapsed
  /\ refreshElapsed' = refreshElapsed + 1
  /\ UNCHANGED <<data, loading, error, refreshTimerRef, apiUrl, fdPc, rfPc, rfIssued, rfHealth, rfRefresh>>
  /\ UNCHANGED notFetch

\* /api/refresh answers with a snapshot: setData, then the finally block
RefreshLoaded ==
  /\ rfPc = "refresh"
  /\ data' = LiveData
  /\ refreshTimerRef' = FALSE
  /\ refreshElapsed' = 0
  /\ loading' = FALSE
  /\ rfPc' = "idle"
  /\ rfRefresh' = "ok"
  /\ UNCHANGED <<error, apiUrl, fdPc, rfIssued, rfHealth>>
  /\ UNCHANGED notFetch

\* the message the catch block of the refresh request passes to setError
RefreshErrorMessage(kind) == IF kind = "abort" THEN TimedOutMsg ELSE RefreshFailedMsg

\* error after setError(first) followed, before any render, by setError(second)
SetErrorTwice(first, second) == second

\* /api/refresh fails: setError(message), then fetchData() up to its await, which
\* starts with setLoading(true) and setError(null)
RefreshFailed(kind) ==
  /\ rfPc = "refresh"
  /\ loading' = TRUE
  /\ error' = SetErrorTwice(RefreshErrorMessage(kind), NULL)
  /\ rfIssued' = rfIssued \cup {"static"}
  /\ rfRefresh' = kind
  /\ rfPc' = "errorStatic"
  /\ UNCHANGED <<data, refreshElapsed, refreshTimerRef, apiUrl, fdPc, rfHealth>>
  /\ UNCHANGED notFetch

AfterNestedFetchMutLeavesTicker ==
  /\ rfPc' = "idle"
  /\ loading' = FALSE
  /\ UNCHANGED <<refreshTimerRef, refreshElapsed>>

\* what refreshFromAPI does once its awaited fetchData() has returned
AfterNestedFetch ==
  /\ rfPc' = "idle"
  /\ loading' = FALSE
  /\ refreshTimerRef' = IF rfPc = "errorStatic" THEN FALSE ELSE refreshTimerRef
  /\ refreshElapsed' = IF rfPc = "errorStatic" THEN 0 ELSE refreshElapsed

\* the fetchData awaited by refreshFromAPI loads latest.json
NestedFetchLoaded ==
  /\ rfPc \in {"noApiStatic", "fallbackStatic", "errorStatic"}
  /\ data' = StaticData
  /\ AfterNestedFetch
  /\ UNCHANGED <<error, apiUrl, fdPc, rfIssued, rfHealth, rfRefresh>>
  /\ UNCHANGED notFetch

\* the fetchData awaited by refreshFromAPI fails
NestedFetchFailed ==
  /\ rfPc \in {"noApiStatic", "fallbackStatic", "errorStatic"}
  /\ error' = LoadFailedMsg
  /\ data' = MockData
  /\ AfterNestedFetch
  /\ UNCHANGED <<apiUrl, fdPc, rfIssued, rfHealth, rfRefresh>>
  /\ UNCHANGED notFetch

FetchNext ==
  \/ Refetch
  \/ FetchDataLoaded
  \/ FetchDataFailed
  \/ RefreshNoApi
  \/ RefreshCall
  \/ HealthOk
  \/ \E k \in HealthFailures : HealthFailed(k)
  \/ ElapsedTick
  \/ RefreshLoaded
  \/ \E k \in RefreshFailures : RefreshFailed(k)
  \/ NestedFetchLoaded
  \/ NestedFetchFailed

\* C10: once the health probe of a refreshFromAPI call has failed, the call has
\* issued the static fetch and has issued no /api/refresh request, up to and after
\* its end.
C10_HealthFailureFallsBack ==
  rfHealth \in HealthFailures =>
    /\ "static" \in rfIssued
    /\ "refresh" \notin rfIssued
    /\ rfPc \in {"fallbackStatic", "idle"}
    /\ ~refreshTimerRef

\* C10 witness: a refreshFromAPI call whose health probe was aborted has settled
\* with the static snapshot
C10_Witness ==
  /\ rfHealth = "abort"
  /\ rfPc = "idle"
  /\ rfIssued = {"health", "static"}
  /\ data = StaticData
  /\ ~loading

\* C25 (as stated): when a fetch of the main snapshot fails while a snapshot is
\* loaded, the error is set and the snapshot kept is the one loaded before, as the
\* warning "(이전 데이터를 표시합니다)" says; the demo dataset is substituted only when
\* nothing was loaded before.
C25_FailureKeepsPreviousData ==
  [][(FetchDataFailed \/ NestedFetchFailed) =>
       /\ error' # NULL
       /\ data' = IF data # NULL THEN data ELSE MockData]_vars

C13_FailureClassified ==
  (rfPc = "idle" /\ rfHealth = "ok" /\ rfRefresh \in RefreshFailures) =>
    error = IF rfRefresh = "abort" THEN TimedOutMsg ELSE RefreshFailedMsg

\* C14: every step that settles a fetchData or refreshFromAPI call (success, health
\* failure, refresh failure, failure of the static fetch) leaves a non-null snapshot
\* and loading false, and so does every state in which no call is in flight.
C14_NeverWithoutData ==
  /\ [][(\/ (fdPc = "fetching" /\ fdPc' = "idle")
         \/ (rfPc # "idle" /\ rfPc' = "idle")) => (data' # NULL /\ ~loading')]_vars
  /\ []((fdPc = "idle" /\ rfPc = "idle") => (data # NULL /\ ~loading))

\* C14 witness: a refresh whose request failed and whose fallback static fetch failed
\* too has settled with the mock snapshot
C14_Witness ==
  /\ rfPc = "idle"
  /\ fdPc = "idle"
  /\ rfRefresh \in RefreshFailures
  /\ data = MockData
  /\ error = LoadFailedMsg
  /\ ~loading

(* App: snapshots                                                          *)
(***************************************************************************)
\* longest ranked list of a snapshot
MaxLen == 2

Markets == {"kospi", "kosdaq"}
StockCodes == {"005930", "003670", "035420"}

\* change_rate (in 1/100 percent) of a stock in the trading-value and volume lists
BaseRate(code) ==
  CASE code = "005930" -> 357
    [] code = "003670" -> -428
    [] OTHER -> 0

\* a Stock entry
Stock(code, rate, rank) == [code |-> code, change_rate |-> rate, rank |-> rank]

\* the lists of codes without repetition, up to length n
CodeSeqs(n) ==
  {s \in UNION {[1..k -> StockCodes] : k \in 0..n} :
     \A i, j \in 1..Len(s) : i # j => s[i] # s[j]}

\* a ranked list as the collector writes it: rank is the 1-based position
RankedList(codes) == [i \in 1..Len(codes) |-> Stock(codes[i], BaseRate(codes[i]), i)]

\* the up / down lists of one market in a FluctuationData; the rates of a
\* fluctuation source are its own and need not agree with the other lists
UpList(codes) == [i \in 1..Len(codes) |-> Stock(codes[i], 500 - i, i)]
DownList(codes) == [i \in 1..Len(codes) |-> Stock(codes[i], i - 500, i)]

FlucCases ==
  { [up |-> UpList(<<"005930">>), down |-> DownList(<<"003670">>)],
    [up |-> UpList(<<"035420", "005930">>), down |-> <<>>],
    [up |-> <<>>, down |-> DownList(<<"003670", "035420">>)] }

\* the lists of one market of a snapshot
MarketCases ==
  [trading_value : {RankedList(c) : c \in CodeSeqs(MaxLen)},
   volume : {RankedList(c) : c \in CodeSeqs(MaxLen)},
   fluctuation : FlucCases,
   fluctuation_direct : FlucCases]

MarketSampleA ==
  [trading_value |-> RankedList(<<"003670", "005930">>),
   volume |-> RankedList(<<"005930">>),
   fluctuation |-> [up |-> UpList(<<"005930">>), down |-> DownList(<<"003670">>)],
   fluctuation_direct |-> [up |-> <<>>, down |-> DownList(<<"003670", "035420">>)]]

MarketSampleB ==
  [trading_value |-> RankedList(<<"035420", "003670">>),
   volume |-> RankedList(<<"003670", "035420">>),
   fluctuation |-> [up |-> UpList(<<"035420", "005930">>), down |-> <<>>],
   fluctuation_direct |-> [up |-> UpList(<<"005930">>), down |-> DownList(<<"003670">>)]]

MarketSamples == {MarketSampleA, MarketSampleB}

Missing == [present |-> FALSE]
ByMarket(k, q) == [present |-> TRUE, kospi |-> k, kosdaq |-> q]
FluctuationData(k, q) ==
  [present |-> TRUE, kospi_up |-> k.up, kospi_down |-> k.down,
   kosdaq_up |-> q.up, kosdaq_down |-> q.down]

\* a StockData with the volume / trading_value / fluctuation fields; direct tells
\* whether fluctuation_direct is present
NewSnapshot(k, q, direct) ==
  [isNull |-> FALSE,
   rising |-> ByMarket(k.fluctuation.up, q.fluctuation.up),
   falling |-> ByMarket(k.fluctuation.down, q.fluctuation.down),
   volume |-> ByMarket(k.volume, q.volume),
   trading_value |-> ByMarket(k.trading_value, q.trading_value),
   fluctuation |-> FluctuationData(k.fluctuation, q.fluctuation),
   fluctuation_direct |->
     IF direct THEN FluctuationData(k.fluctuation_direct, q.fluctuation_direct) ELSE Missing]

\* a StockData of the old format: rising and falling only
LegacySnapshot(k, q) ==
  [isNull |-> FALSE,
   rising |-> ByMarket(k.fluctuation.up, q.fluctuation.up),
   falling |-> ByMarket(k.fluctuation.down, q.fluctuation.down),
   volume |-> Missing,
   trading_value |-> Missing,
   fluctuation |-> Missing,
   fluctuation_direct |-> Missing]

NoSnapshot == [isNull |-> TRUE]

\* the snapshots explored: one market ranges over all cases while the other is a
\* sample; plus snapshots with optional fields missing
Snapshots ==
  {NewSnapshot(k, MarketSampleB, TRUE) : k \in MarketCases}
  \cup {NewSnapshot(MarketSampleA, q, TRUE) : q \in MarketCases}
  \cup {NewSnapshot(k, MarketSampleB, FALSE) :
          k \in {m \in MarketCases : m.fluctuation_direct = m.fluctuation}}
  \cup {NewSnapshot(MarketSampleA, q, FALSE) :
          q \in {m \in MarketCases : m.fluctuation_direct = m.fluctuation}}
  \cup {[NewSnapshot(k, q, TRUE) EXCEPT !.trading_value = Missing] :
          k \in MarketSamples, q \in MarketSamples}
  \cup {[NewSnapshot(k, q, FALSE) EXCEPT !.fluctuation = Missing] :
          k \in MarketSamples, q \in MarketSamples}
  \cup {LegacySnapshot(k, q) : k \in MarketSamples, q \in MarketSamples}

CompositeModes == {"all", "trading_volume", "trading_fluc", "volume_fluc"}
FluctuationModes == {"calculated", "direct"}

(***************************************************************************)
(* App: derived data (useMemo)                                             *)
(***************************************************************************)
displayDataMutLiveFirst == IF ~currentData.isNull THEN currentData ELSE historyData

\* const displayData = historyData || currentData
displayData == IF ~historyData.isNull THEN historyData ELSE currentData

\* const hasNewFields = !!displayData?.volume
hasNewFields == ~displayData.isNull /\ displayData.volume.present

\* x || [] for an optional list
OrEmpty(opt, field) == IF opt.present THEN opt[field] ELSE <<>>

\* activeFluctuationData, when hasNewFields
ActiveFluctuationData(dd, fMode) ==
  IF fMode = "direct"
  THEN IF dd.fluctuation_direct.present THEN dd.fluctuation_direct ELSE dd.fluctuation
  ELSE dd.fluctuation

\* new Set([...up.map(s => s.code), ...down.map(s => s.code)])
CodeSet(up, down) == {up[i].code : i \in 1..Len(up)} \cup {down[i].code : i \in 1..Len(down)}

TradingVolumeFilterMutAlsoFluctuation(flucAll, volSet, s) ==
  s.code \in volSet /\ s.code \in flucAll

\* the filter of the trading_volume branch: of the two sets in scope it reads the
\* volume set only
TradingVolumeFilter(flucAll, volSet, s) == s.code \in volSet

FilterForModeMutAllIgnoresVolume(mode, flucAll, volSet, s) ==
  IF mode = "all" THEN s.code \in flucAll
  ELSE IF mode = "trading_volume" THEN s.code \in volSet
  ELSE s.code \in flucAll

\* filterKospi / filterKosdaq of the composite mode
FilterForMode(mode, flucAll, volSet, s) ==
  IF mode = "all" THEN s.code \in flucAll /\ s.code \in volSet
  ELSE IF mode = "trading_volume" THEN TradingVolumeFilter(flucAll, volSet, s)
  ELSE IF mode = "trading_fluc" THEN s.code \in flucAll
  ELSE s.code \in flucAll

ReRankMutKeepRank(list) == list

\* .map(s => ({ ...s, rank: ++rank })) with rank starting at 0
ReRank(list) == [i \in 1..Len(list) |-> [list[i] EXCEPT !.rank = i]]

RisingOfMutNotFalling(filtered) == ReRank(SelectSeq(filtered, LAMBDA s : s.change_rate >= 0))

\* filtered.filter(s => s.change_rate > 0), re-ranked
RisingOf(filtered) == ReRank(SelectSeq(filtered, LAMBDA s : s.change_rate > 0))

\* filtered.filter(s => s.change_rate < 0), re-ranked
FallingOf(filtered) == ReRank(SelectSeq(filtered, LAMBDA s : s.change_rate < 0))

NoComposite == [isNull |-> TRUE]

\* compositeData
CompositeData(dd, cMode, fMode) ==
  IF dd.isNull THEN NoComposite
  ELSE IF ~dd.volume.present THEN NoComposite
  ELSE
    LET afd == ActiveFluctuationData(dd, fMode)
        flucKospiAll == CodeSet(OrEmpty(afd, "kospi_up"), OrEmpty(afd, "kospi_down"))
        flucKosdaqAll == CodeSet(OrEmpty(afd, "kosdaq_up"), OrEmpty(afd, "kosdaq_down"))
        volKospiSet == CodeSet(OrEmpty(dd.volume, "kospi"), <<>>)
        volKosdaqSet == CodeSet(OrEmpty(dd.volume, "kosdaq"), <<>>)
        baseKospi == IF cMode \in {"all", "trading_volume", "trading_fluc"}
                     THEN OrEmpty(dd.trading_value, "kospi")
                     ELSE OrEmpty(dd.volume, "kospi")
        baseKosdaq == IF cMode \in {"all", "trading_volume", "trading_fluc"}
                      THEN OrEmpty(dd.trading_value, "kosdaq")
                      ELSE OrEmpty(dd.volume, "kosdaq")
        kospiFiltered ==
          SelectSeq(baseKospi, LAMBDA s : FilterForMode(cMode, flucKospiAll, volKospiSet, s))
        kosdaqFiltered ==
          SelectSeq(baseKosdaq, LAMBDA s : FilterForMode(cMode, flucKosdaqAll, volKosdaqSet, s))
    IN [isNull |-> FALSE,
        rising |-> [kospi |-> RisingOf(kospiFiltered), kosdaq |-> RisingOf(kosdaqFiltered)],
        falling |-> [kospi |-> FallingOf(kospiFiltered), kosdaq |-> FallingOf(kosdaqFiltered)]]

compositeData == CompositeData(displayData, compositeMode, fluctuationMode)

RawLists(dd) ==
  [rising |-> [kospi |-> dd.rising.kospi, kosdaq |-> dd.rising.kosdaq],
   falling |-> [kospi |-> dd.falling.kospi, kosdaq |-> dd.falling.kosdaq]]

CompositeTabListsMutFallbackEmpty(dd, cd) ==
  IF ~cd.isNull
  THEN [rising |-> cd.rising, falling |-> cd.falling]
  ELSE [rising |-> [kospi |-> <<>>, kosdaq |-> <<>>],
        falling |-> [kospi |-> <<>>, kosdaq |-> <<>>]]

\* the kospiStocks / kosdaqStocks handed to the two StockLists of the composite
\* tab (rendered when displayData is there): compositeData's lists, or the
\* snapshot's own rising / falling when compositeData is null
CompositeTabLists(dd, cd) ==
  IF ~cd.isNull
  THEN [rising |-> cd.rising, falling |-> cd.falling]
  ELSE RawLists(dd)

(***************************************************************************)
(* App: actions                                                            *)
(***************************************************************************)
\* a snapshot is on display; nothing is saved in localStorage, so the modes are the defaults
AppInit ==
  /\ currentData \in Snapshots
  /\ historyData = NoSnapshot
  /\ compositeMode = "trading_fluc"
  /\ fluctuationMode = "calculated"
  /\ histPending = NULL
  /\ showHistoryModal = FALSE

AppRest ==
  /\ currentData = NoSnapshot
  /\ historyData = NoSnapshot
  /\ compositeMode = "trading_fluc"
  /\ fluctuationMode = "calculated"
  /\ histPending = NULL
  /\ showHistoryModal = FALSE

handleCompositeModeChange(mode) ==
  /\ compositeMode' = mode
  /\ UNCHANGED <<currentData, historyData, fluctuationMode>>
  /\ UNCHANGED notApp

handleFluctuationModeChange(mode) ==
  /\ fluctuationMode' = mode
  /\ UNCHANGED <<currentData, historyData, compositeMode>>
  /\ UNCHANGED notApp

AppNext ==
  \/ \E m \in CompositeModes : handleCompositeModeChange(m)
  \/ \E m \in FluctuationModes : handleFluctuationModeChange(m)

(***************************************************************************)
(* App: live and historical snapshots                                      *)
(***************************************************************************)
\* the entries of the history index and the archived snapshot of each
HistoryEntries == {"2026-02-09 15:30", "2026-02-10 09:10"}
Archive(entry) ==
  IF entry = "2026-02-09 15:30"
  THEN LegacySnapshot(MarketSampleB, MarketSampleA)
  ELSE NewSnapshot(MarketSampleB, MarketSampleB, TRUE)

\* the snapshots useStockData may hand to App as data
LiveSnapshots ==
  {NewSnapshot(MarketSampleA, MarketSampleB, TRUE),
   NewSnapshot(MarketSampleA, MarketSampleA, FALSE)}

\* App before the first snapshot has loaded, or with one on display
HistoryInit ==
  /\ currentData \in {NoSnapshot} \cup LiveSnapshots
  /\ historyData = NoSnapshot
  /\ compositeMode = "trading_fluc"
  /\ fluctuationMode = "calculated"
  /\ histPending = NULL
  /\ showHistoryModal = FALSE

\* handleHistoryClick: await fetchIndex(); setShowHistoryModal(true)
handleHistoryClick ==
  /\ showHistoryModal' = TRUE
  /\ UNCHANGED <<histPending, appVars>>
  /\ UNCHANGED notHistory

\* handleHistorySelect(entry) up to the await inside fetchHistoryData(entry)
handleHistorySelect(entry) ==
  /\ showHistoryModal
  /\ histPending = NULL
  /\ histPending' = entry
  /\ UNCHANGED <<showHistoryModal, appVars>>
  /\ UNCHANGED notHistory

\* fetchHistoryData: the archived file loads and becomes selectedData; then
\* handleHistorySelect closes the modal
HistoryLoaded ==
  /\ histPending # NULL
  /\ historyData' = Archive(histPending)
  /\ histPending' = NULL
  /\ showHistoryModal' = FALSE
  /\ UNCHANGED <<currentData, compositeMode, fluctuationMode>>
  /\ UNCHANGED notHistory

\* fetchHistoryData: the archived file fails to load; the selection stays or is
\* cleared; then handleHistorySelect closes the modal
HistoryFailed ==
  /\ histPending # NULL
  /\ historyData' \in {historyData, NoSnapshot}
  /\ histPending' = NULL
  /\ showHistoryModal' = FALSE
  /\ UNCHANGED <<currentData, compositeMode, fluctuationMode>>
  /\ UNCHANGED notHistory

\* handleBackToLive: clearSelection()
handleBackToLive ==
  /\ ~historyData.isNull
  /\ historyData' = NoSnapshot
  /\ UNCHANGED <<currentData, compositeMode, fluctuationMode, histVars>>
  /\ UNCHANGED notHistory

\* handleRefresh: refreshFromAPI() settles and useStockData sets a new data
LiveRefreshed(snapshot) ==
  /\ currentData' = snapshot
  /\ UNCHANGED <<historyData, compositeMode, fluctuationMode, histVars>>
  /\ UNCHANGED notHistory

HistoryNext ==
  \/ handleHistoryClick
  \/ \E e \in HistoryEntries : handleHistorySelect(e)
  \/ HistoryLoaded
  \/ HistoryFailed
  \/ handleBackToLive
  \/ \E sn \in LiveSnapshots : LiveRefreshed(sn)
  \/ \E m \in CompositeModes : handleCompositeModeChange(m)
  \/ \E m \in FluctuationModes : handleFluctuationModeChange(m)

\* C18: the steps of loading a historical entry leave the live snapshot alone;
\* while a historical snapshot is selected it is the one displayed, also across a
\* refresh of the live snapshot; and back-to-live clears the selection and displays
\* the live snapshot.
C18_LiveXorHistorical ==
  /\ [](~historyData.isNull => displayData = historyData)
  /\ [](historyData.isNull => displayData = currentData)
  /\ [][(handleHistoryClick \/ (\E e \in HistoryEntries : handleHistorySelect(e))
          \/ HistoryLoaded \/ HistoryFailed) => currentData' = currentData]_vars
  /\ [][\A sn \in LiveSnapshots :
          (LiveRefreshed(sn) /\ ~historyData.isNull) =>
             (displayData' = historyData /\ currentData' = sn)]_vars
  /\ [][handleBackToLive =>
          (historyData'.isNull /\ displayData' = currentData /\ currentData' = currentData)]_vars

\* C18 witness: a historical snapshot is on display while the live snapshot has
\* been replaced by a different one
C18_Witness ==
  /\ ~historyData.isNull
  /\ ~currentData.isNull
  /\ currentData # historyData
  /\ currentData = NewSnapshot(MarketSampleA, MarketSampleA, FALSE)
  /\ displayData = Archive("2026-02-10 09:10")

(***************************************************************************)
(* App: properties of the composite derivation                             *)
(***************************************************************************)
\* the base list of a market for the composite mode on display
BaseListOf(m) ==
  IF compositeMode = "volume_fluc"
  THEN displayData.volume[m]
  ELSE IF displayData.trading_value.present THEN displayData.trading_value[m] ELSE <<>>

\* the fluctuation source the App has chosen (direct data when selected and present)
ChosenSource ==
  IF fluctuationMode = "direct" /\ displayData.fluctuation_direct.present
  THEN displayData.fluctuation_direct
  ELSE displayData.fluctuation

\* the fluctuation set of a market: the up and down codes of the chosen source
FlucSetOf(m) ==
  IF ~ChosenSource.present THEN {}
  ELSE LET up == IF m = "kospi" THEN ChosenSource.kospi_up ELSE ChosenSource.kosdaq_up
           down == IF m = "kospi" THEN ChosenSource.kospi_down ELSE ChosenSource.kosdaq_down
       IN SeqRange([i \in 1..Len(up) |-> up[i].code])
            \cup SeqRange([i \in 1..Len(down) |-> down[i].code])

VolSetOf(m) == {displayData.volume[m][i].code : i \in 1..Len(displayData.volume[m])}

\* the mode's membership filter
Passes(m, code) ==
  CASE compositeMode = "all" -> code \in FlucSetOf(m) /\ code \in VolSetOf(m)
    [] compositeMode = "trading_volume" -> code \in VolSetOf(m)
    [] OTHER -> code \in FlucSetOf(m)

\* positions of the base list that pass the filter with a rate of the given sign
Survivors(m, sign) ==
  {i \in 1..Len(BaseListOf(m)) :
     /\ Passes(m, BaseListOf(m)[i].code)
     /\ IF sign > 0 THEN BaseListOf(m)[i].change_rate > 0 ELSE BaseListOf(m)[i].change_rate < 0}

\* list holds exactly the base entries at the positions in S, in base order
HoldsInBaseOrder(list, m, S) ==
  /\ Len(list) = Cardinality(S)
  /\ \A j \in 1..Len(list) :
       \E i \in S :
         /\ list[j].code = BaseListOf(m)[i].code
         /\ list[j].change_rate = BaseListOf(m)[i].change_rate
         /\ Cardinality({h \in S : h < i}) = j - 1

\* the values a fluctuation field of a snapshot is varied over
FluctuationVariants == {Missing} \cup {FluctuationData(k, k) : k \in FlucCases}

\* C26: when the displayed snapshot has neither the trading-value nor the volume
\* breakdown, the composite derivation is null for every composite mode and
\* every fluctuation source, and the composite tab shows the snapshot's own
\* rising and falling lists, entry for entry with the ranks they came with.
C26_LegacyFallback ==
  (/\ ~displayData.isNull
   /\ ~displayData.volume.present
   /\ ~displayData.trading_value.present) =>
    /\ \A c \in CompositeModes, f \in FluctuationModes :
         CompositeData(displayData, c, f) = NoComposite
    /\ CompositeTabLists(displayData, compositeData) = RawLists(displayData)
    /\ \A m \in Markets :
         /\ CompositeTabLists(displayData, compositeData).rising[m] = displayData.rising[m]
         /\ CompositeTabLists(displayData, compositeData).falling[m] = displayData.falling[m]

C26_Witness ==
  /\ ~displayData.isNull
  /\ ~displayData.volume.present
  /\ ~displayData.trading_value.present
  /\ compositeMode = "all"
  /\ fluctuationMode = "direct"
  /\ Len(displayData.rising.kospi) = 2
  /\ displayData.falling.kosdaq # <<>>

\* C27: in mode trading_volume the composite result is the same for both
\* fluctuation sources and for every content (or absence) of the snapshot's
\* fluctuation and fluctuation_direct fields.
C27_FluctuationIndependence ==
  (hasNewFields /\ compositeMode = "trading_volume") =>
    \A f1 \in FluctuationVariants, f2 \in FluctuationVariants, fm \in FluctuationModes :
      CompositeData([displayData EXCEPT !.fluctuation = f1, !.fluctuation_direct = f2],
                    "trading_volume", fm) = compositeData

C27_Witness ==
  /\ hasNewFields
  /\ compositeMode = "trading_volume"
  /\ fluctuationMode = "direct"
  /\ displayData.fluctuation_direct.present
  /\ displayData.fluctuation.present
  /\ displayData.fluctuation_direct # displayData.fluctuation
  /\ ~compositeData.isNull
  /\ compositeData.rising.kospi # <<>>
  /\ compositeData.falling.kospi # <<>>

C3_ZeroExcluded ==
  ~compositeData.isNull =>
    \A m \in Markets :
      \A i \in 1..Len(BaseListOf(m)) :
        BaseListOf(m)[i].change_rate = 0 =>
          /\ \A j \in 1..Len(compositeData.rising[m]) :
               compositeData.rising[m][j].code # BaseListOf(m)[i].code
          /\ \A j \in 1..Len(compositeData.falling[m]) :
               compositeData.falling[m][j].code # BaseListOf(m)[i].code

\* C3 witness: in mode all a flat stock is in the base list, the volume list and
\* the fluctuation set, and the output holds another stock but not the flat one
C3_Witness ==
  /\ ~compositeData.isNull
  /\ compositeMode = "all"
  /\ \E m \in Markets :
       /\ \E i \in 1..Len(BaseListOf(m)) :
            /\ BaseListOf(m)[i].change_rate = 0
            /\ Passes(m, BaseListOf(m)[i].code)
       /\ Len(compositeData.rising[m]) + Len(compositeData.falling[m]) = 1

(***************************************************************************)
(* Specifications                                                          *)
(***************************************************************************)
\* each subsystem is explored from its own initial states with the others at rest
InitPaper == PaperInit /\ StoreRest /\ AuthRest /\ FetchRest /\ ClockInit /\ AppRest /\ FormInit /\ MountRest
SpecPaper == InitPaper /\ [][PaperNext]_vars

InitStore == StoreInit /\ ClockInit /\ PaperRest /\ AuthRest /\ FetchRest /\ AppRest /\ FormInit /\ MountRest
SpecStore == InitStore /\ [][StoreNext]_vars

InitAuth == AuthInit /\ StoreRest /\ ClockInit /\ PaperRest /\ FetchRest /\ AppRest /\ FormInit /\ MountRest
SpecAuth == InitAuth /\ [][AuthNext]_vars

InitFetch == FetchInit /\ StoreRest /\ AuthRest /\ ClockInit /\ PaperRest /\ AppRest /\ FormInit /\ MountRest
SpecFetch == InitFetch /\ [][FetchNext]_vars

InitSession == AuthRest /\ StoreRest /\ ClockInit /\ PaperRest /\ FetchRest /\ AppRest /\ FormInit /\ MountRest
SpecSession == InitSession /\ [][SessionNext]_vars

SpecVisibility == InitSession /\ [][VisibilityNext]_vars

SpecMonitor == InitAuth /\ [][MonitorNext]_vars

InitMount == AuthInit /\ MountInit /\ StoreRest /\ ClockInit /\ PaperRest /\ FetchRest /\ AppRest /\ FormInit
SpecMount == InitMount /\ [][MountNext]_vars

\* the getSession() call settles, and a queued callback runs
SpecMountFair ==
  /\ InitMount
  /\ [][MountNext]_vars
  /\ WF_vars(GetSessionAnswered \/ GetSessionRejected)
  /\ WF_vars(GetSessionDelivered)

InitForm == FormInit /\ StoreRest /\ AuthRest /\ FetchRest /\ ClockInit /\ PaperRest /\ AppRest /\ MountRest
SpecForm == InitForm /\ [][FormNext]_vars

InitHistory == HistoryInit /\ StoreRest /\ AuthRest /\ FetchRest /\ ClockInit /\ PaperRest /\ FormInit /\ MountRest
SpecHistory == InitHistory /\ [][HistoryNext]_vars

InitApp == AppInit /\ StoreRest /\ AuthRest /\ FetchRest /\ ClockInit /\ PaperRest /\ FormInit /\ MountRest
SpecApp == InitApp /\ [][AppNext]_vars

====
